---- MODULE Spec2Model ----
(***************************************************************************)
(* A model of the cvxrs solve pipeline: CSC validation, Ruiz scaling, the  *)
(* dense LDL^T solver, the linear-system cache and the ADMM loop.          *)
(*                                                                         *)
(* Scalars (the RealNumber type parameter T) are modelled as exact         *)
(* extended rationals <<num, den>> with den >= 0 and gcd(num, den) = 1:    *)
(* <<1,0>> is +infinity, <<-1,0>> is -infinity and <<0,0>> is NaN.         *)
(* Rounding is not modelled; vectors and dense matrices are sequences,     *)
(* indexed from 0 through At / the row-major helpers as in the source.     *)
(***************************************************************************)
EXTENDS Integers, Sequences, FiniteSets, TLC

VARIABLES
    kkt,        \* DenseKktSolver: [dimension, l, d, analyzed, last_factor]
    kktCall,    \* the last call made on kkt, its arguments and its result
    kktM,       \* the matrix of the factorization kkt holds, <<>> when it holds none
    vIn,        \* the validation call made: <<[op, problem]>>, <<>> before the call
    vOut,       \* its result: <<result>>, <<>> before the call
    ruiz,       \* the RuizScaler: [column_scaling, iterations]
    sCall,      \* the last call made on ruiz, its arguments and its result
    run,        \* the solve call: [pc, call, loc, elapsed], loc its locals once it validated
    result,     \* what the last solve_qp / solve_lp call returned, <<>> before it returns
    pb,         \* the last project_box call: its arguments and what it left in x
    api,        \* the api Solver: [method, options, scaler, warm_start]
    apiCall,    \* the last call on api: [op, problem, result], op "new" before any
    clock,      \* the reading of the monotonic clock (Instant::now)
    timer,      \* the Timer: [start, elapsed, running]
    tCall,      \* the last call on timer: [op, was, out], op "new" before any
    task,       \* the GUI's shared, mutex-guarded TaskState
    workers,    \* the solve worker threads in flight: their ids and arguments
    gui         \* the fields of CvxrsApp the solve task reads and writes

kktVars == <<kkt, kktCall, kktM>>
validateVars == <<vIn, vOut>>
scaleVars == <<ruiz, sCall>>
admmVars == <<run, result>>
mathVars == <<pb>>
apiVars == <<api, apiCall>>
timerVars == <<clock, timer, tCall>>
guiVars == <<task, workers, gui>>
vars == <<kkt, kktCall, kktM, vIn, vOut, ruiz, sCall, run, result, pb, api, apiCall,
          clock, timer, tCall, task, workers, gui>>

-----------------------------------------------------------------------------
(* Scalars: RealNumber (num_traits::Float) as exact extended rationals *)

Abs(i) == IF i < 0 THEN 0 - i ELSE i

RECURSIVE Gcd(_, _)
Gcd(a, b) == IF b = 0 THEN a ELSE Gcd(b, a % b)

Rat(n, d) ==
    LET g == Gcd(Abs(n), Abs(d))
    IN  IF g = 0 THEN <<0, 0>>
        ELSE IF d < 0 THEN <<(0 - n) \div g, (0 - d) \div g>>
        ELSE <<n \div g, d \div g>>

Int2R(i) == <<i, 1>>
Zero == <<0, 1>>
One == <<1, 1>>
PosInf == <<1, 0>>
NegInf == <<-1, 0>>
NaN == <<0, 0>>
Half == <<1, 2>>

IsNaN(a) == a[1] = 0 /\ a[2] = 0
IsInf(a) == a[1] # 0 /\ a[2] = 0
IsFinite(a) == a[2] # 0

\* a + b over the least common denominator
FAdd(a, b) ==
    IF a[2] = 0 /\ b[2] = 0
    THEN (IF a[1] = b[1] THEN a ELSE NaN)
    ELSE IF a[2] = 0 \/ b[2] = 0 THEN Rat(a[1] * b[2] + b[1] * a[2], a[2] * b[2])
    ELSE LET g == Gcd(a[2], b[2])
         IN  Rat(a[1] * (b[2] \div g) + b[1] * (a[2] \div g), (a[2] \div g) * b[2])

FNeg(a) == <<0 - a[1], a[2]>>
FSub(a, b) == FAdd(a, FNeg(b))
\* a * b, cancelling across the two fractions before multiplying
FMul(a, b) ==
    IF a[2] = 0 \/ b[2] = 0 \/ a[1] = 0 \/ b[1] = 0 THEN Rat(a[1] * b[1], a[2] * b[2])
    ELSE LET g1 == Gcd(Abs(a[1]), b[2])
             g2 == Gcd(Abs(b[1]), a[2])
         IN  <<(a[1] \div g1) * (b[1] \div g2), (a[2] \div g2) * (b[2] \div g1)>>
FInv(b) == Rat(b[2], b[1])
FDiv(a, b) == FMul(a, FInv(b))
FAbs(a) == <<Abs(a[1]), a[2]>>

\* the numerators of a and b over their least common denominator
Num(a, b) == a[1] * (b[2] \div Gcd(a[2], b[2]))

FLt(a, b) ==
    IF IsNaN(a) \/ IsNaN(b) THEN FALSE
    ELSE IF a[2] = 0 /\ b[2] = 0 THEN a[1] < b[1]
    ELSE IF a[2] = 0 \/ b[2] = 0 THEN a[1] * b[2] < b[1] * a[2]
    ELSE Num(a, b) < Num(b, a)

FLe(a, b) ==
    IF IsNaN(a) \/ IsNaN(b) THEN FALSE
    ELSE IF a[2] = 0 /\ b[2] = 0 THEN a[1] <= b[1]
    ELSE IF a[2] = 0 \/ b[2] = 0 THEN a[1] * b[2] <= b[1] * a[2]
    ELSE Num(a, b) <= Num(b, a)

FGt(a, b) == FLt(b, a)

\* Float::max / Float::min: a NaN operand yields the other operand
FMax(a, b) == IF IsNaN(a) THEN b ELSE IF IsNaN(b) THEN a ELSE IF FLt(a, b) THEN b ELSE a
FMin(a, b) == IF IsNaN(a) THEN b ELSE IF IsNaN(b) THEN a ELSE IF FLt(b, a) THEN b ELSE a

\* exponent of the 1e-12 thresholds
EpsExp == 12

RECURSIVE DivPow10(_, _)
DivPow10(d, k) == IF k = 0 THEN d ELSE DivPow10(d \div 10, k - 1)

\* a <= 1e-12 for a >= 0: num * 10^12 <= den, computed without leaving the integers' range
LeEps(a) ==
    IF IsNaN(a) THEN FALSE
    ELSE IF a[2] = 0 THEN a[1] < 0
    ELSE a[1] <= DivPow10(a[2], EpsExp)

\* 0-based access to a Vec
At(v, i) == v[i + 1]

\* Body applied to a value that is computed once: a let binding of a local
With(value, Body(_)) == CHOOSE b \in {Body(v) : v \in {value}} : TRUE

Repeat(x, n) == [i \in 1..n |-> x]

-----------------------------------------------------------------------------
(* Numeric primitives  (crates/core/src/math.rs) *)

RECURSIVE SumTo(_, _)
\* f[0] + ... + f[n-1] for a function f on 0..n-1
SumTo(f, n) == IF n = 0 THEN Zero ELSE FAdd(SumTo(f, n - 1), f[n - 1])

\* the fold of dot, over the first k pairs
RECURSIVE DotTo(_, _, _)
DotTo(lhs, rhs, k) ==
    IF k = 0 THEN Zero ELSE FAdd(DotTo(lhs, rhs, k - 1), FMul(lhs[k], rhs[k]))

Dot(lhs, rhs) == DotTo(lhs, rhs, Len(lhs))

\* the fold of norm_inf, over the first k values
RECURSIVE NormInfTo(_, _)
NormInfTo(data, k) ==
    IF k = 0 THEN Zero ELSE FMax(NormInfTo(data, k - 1), FAbs(data[k]))

NormInf(data) == NormInfTo(data, Len(data))

\* project_box clamping from below only
ProjectBoxNoUpper(x, lower, upper) ==
    [i \in 1..Len(x) |-> FMax(x[i], lower[i])]

\* project_box
ProjectBox(x, lower, upper) ==
    [i \in 1..Len(x) |-> FMin(FMax(x[i], lower[i]), upper[i])]

ResidualsInf(primal, dual) == <<NormInf(primal), NormInf(dual)>>

RelativeGap(primal_obj, dual_obj) ==
    FDiv(FAbs(FSub(primal_obj, dual_obj)),
         FAdd(One, FMax(FAbs(primal_obj), FAbs(dual_obj))))

-----------------------------------------------------------------------------
(* Problem model and validation  (crates/core/src/problem.rs) *)
(* An Option is a sequence: <<>> is None and <<v>> is Some(v).            *)

None == <<>>
Some(v) == <<v>>
IsSome(o) == Len(o) = 1
Get(o) == o[1]

Ok == [kind |-> "Ok", what |-> "ok"]
DimensionMismatch(what) == [kind |-> "DimensionMismatch", what |-> what]
InvalidStructure(what) == [kind |-> "InvalidStructure", what |-> what]

IsOk(r) == r.kind = "Ok"

\* CscMatrix::validate
CscValidate(m) ==
    IF Len(m.indptr) # m.ncols + 1 THEN DimensionMismatch("indptr length")
    ELSE IF Len(m.indices) # Len(m.data) THEN DimensionMismatch("indices length")
    ELSE Ok

\* first index with lower > upper, or -1
RECURSIVE FirstInverted(_, _, _)
FirstInverted(lower, upper, i) ==
    IF i >= Len(lower) \/ i >= Len(upper) THEN -1
    ELSE IF FGt(At(lower, i), At(upper, i)) THEN i
    ELSE FirstInverted(lower, upper, i + 1)

\* BoundsValidate without the comparison of lower with upper
BoundsValidateNoOrder(b) ==
    IF Len(b.lower) # Len(b.upper) THEN DimensionMismatch("lower len != upper len")
    ELSE Ok

\* Bounds::validate
BoundsValidate(b) ==
    IF Len(b.lower) # Len(b.upper) THEN DimensionMismatch("lower len != upper len")
    ELSE IF FirstInverted(b.lower, b.upper, 0) >= 0
         THEN InvalidStructure("lower bound exceeds upper bound")
    ELSE Ok

\* ConstraintsValidate without the comparison of the row count with the rhs length
ConstraintsValidateNoRows(c, nvars) ==
    LET r == CscValidate(c.matrix)
    IN  IF ~IsOk(r) THEN r
        ELSE IF c.matrix.ncols # nvars THEN DimensionMismatch("constraint matrix columns")
        ELSE Ok

\* EqualityConstraints::validate and InequalityConstraints::validate
ConstraintsValidate(c, nvars) ==
    LET r == CscValidate(c.matrix)
    IN  IF ~IsOk(r) THEN r
        ELSE IF c.matrix.ncols # nvars THEN DimensionMismatch("constraint matrix columns")
        ELSE IF c.matrix.nrows # Len(c.rhs) THEN DimensionMismatch("constraint rows")
        ELSE Ok

\* the part ProblemQP::validate and ProblemLP::validate share: bounds, then
\* equalities, then inequalities
BlocksValidate(p, n) ==
    LET rb == IF ~IsSome(p.bounds) THEN Ok
              ELSE IF Len(Get(p.bounds).lower) # n THEN DimensionMismatch("bounds size")
              ELSE BoundsValidate(Get(p.bounds))
        re == IF IsSome(p.equalities) THEN ConstraintsValidate(Get(p.equalities), n) ELSE Ok
        ri == IF IsSome(p.inequalities) THEN ConstraintsValidate(Get(p.inequalities), n) ELSE Ok
    IN  IF ~IsOk(rb) THEN rb ELSE IF ~IsOk(re) THEN re ELSE ri

\* ProblemLP::nvars, ProblemQP::nvars
LpNvars(p) == Len(p.cost)
QpNvars(p) == Len(p.linear)

\* ProblemLP::validate
LpValidate(p) == BlocksValidate(p, LpNvars(p))

\* ProblemQP::validate
QpValidate(p) ==
    LET n == QpNvars(p)
        rq == CscValidate(p.quadratic)
    IN  IF ~IsOk(rq) THEN rq
        ELSE IF p.quadratic.ncols # n \/ p.quadratic.nrows # n
             THEN DimensionMismatch("quadratic matrix must be square")
        ELSE BlocksValidate(p, n)

\* QpBuilder::build and LpBuilder::build  (crates/api/src/lib.rs): a missing
\* part or a validation error becomes SolverError::InvalidProblem, which keeps
\* the validation error's text
QpBuild(b) ==
    IF ~IsSome(b.p) THEN [kind |-> "InvalidProblem", cause |-> "quadratic matrix missing", what |-> "p"]
    ELSE IF ~IsSome(b.q) THEN [kind |-> "InvalidProblem", cause |-> "linear term missing", what |-> "q"]
    ELSE LET problem == [quadratic |-> Get(b.p), linear |-> Get(b.q),
                         inequalities |-> b.inequality, equalities |-> b.equality,
                         bounds |-> b.bounds]
             r == QpValidate(problem)
         IN  IF IsOk(r) THEN [kind |-> "Ok", cause |-> "Ok", what |-> "ok", problem |-> problem]
             ELSE [kind |-> "InvalidProblem", cause |-> r.kind, what |-> r.what]

LpBuild(b) ==
    IF ~IsSome(b.cost) THEN [kind |-> "InvalidProblem", cause |-> "objective vector missing", what |-> "cost"]
    ELSE LET problem == [cost |-> Get(b.cost),
                         inequalities |-> b.inequality, equalities |-> b.equality,
                         bounds |-> b.bounds]
             r == LpValidate(problem)
         IN  IF IsOk(r) THEN [kind |-> "Ok", cause |-> "Ok", what |-> "ok", problem |-> problem]
             ELSE [kind |-> "InvalidProblem", cause |-> r.kind, what |-> r.what]

-----------------------------------------------------------------------------
(* Ruiz scaling  (crates/core/src/scaling.rs) *)

\* the least r >= from with r * r >= n; the square root of a perfect square
RECURSIVE ISqrt(_, _)
ISqrt(n, from) == IF from * from >= n THEN from ELSE ISqrt(n, from + 1)

\* Float::sqrt, exact on the squares of rationals (the only values it is given)
FSqrt(a) ==
    IF IsNaN(a) \/ a[1] < 0 THEN NaN
    ELSE IF a[2] = 0 THEN a
    ELSE <<ISqrt(a[1], 0), ISqrt(a[2], 0)>>

\* the largest |data[idx]| for idx in start..end-1, starting from max_val
RECURSIVE ColumnMax(_, _, _, _)
ColumnMax(data, idx, end, max_val) ==
    IF idx >= end THEN max_val
    ELSE LET value == FAbs(At(data, idx))
         IN  ColumnMax(data, idx + 1, end, IF FGt(value, max_val) THEN value ELSE max_val)

\* equilibrate_columns, from column col on
RECURSIVE EquilibrateColumns(_, _, _)
EquilibrateColumns(matrix, scaling, col) ==
    IF col >= matrix.ncols THEN scaling
    ELSE LET max_val == ColumnMax(matrix.data, At(matrix.indptr, col),
                                  At(matrix.indptr, col + 1), Zero)
             factor == FSqrt(max_val)
         IN  EquilibrateColumns(matrix,
                 IF FGt(max_val, Zero) /\ FGt(factor, Zero)
                 THEN [scaling EXCEPT ![col + 1] = FDiv(@, factor)]
                 ELSE scaling,
                 col + 1)

\* RuizScaler::new
RuizNew(iterations) == [column_scaling |-> <<>>, iterations |-> iterations]

\* the entries idx..end-1 of one column in apply_column_scaling
RECURSIVE ScaleEntries(_, _, _, _, _, _)
ScaleEntries(data, indices, scaling, inv_col, idx, end) ==
    IF idx >= end THEN data
    ELSE LET row == At(indices, idx)
             inv_row == IF row < Len(scaling) THEN FDiv(One, At(scaling, row)) ELSE One
         IN  ScaleEntries([data EXCEPT ![idx + 1] = FMul(FMul(@, inv_row), inv_col)],
                          indices, scaling, inv_col, idx + 1, end)

\* RuizScaler::apply_column_scaling, from column col on: the new data array
RECURSIVE ApplyColumns(_, _, _, _)
ApplyColumns(matrix, data, scaling, col) ==
    IF col >= matrix.ncols THEN data
    ELSE LET col_scale == At(scaling, col)
         IN  ApplyColumns(matrix,
                 IF col_scale = Zero THEN data
                 ELSE ScaleEntries(data, matrix.indices, scaling, FDiv(One, col_scale),
                                   At(matrix.indptr, col), At(matrix.indptr, col + 1)),
                 scaling, col + 1)

ApplyColumnScaling(matrix, scaling) ==
    [matrix EXCEPT !.data = ApplyColumns(matrix, matrix.data, scaling, 0)]

Min(a, b) == IF a < b THEN a ELSE b

\* RuizScaler::apply_vector_scaling
ApplyVectorScaling(vector, scaling) ==
    [i \in 1..Len(vector) |->
        IF i <= Len(scaling) /\ scaling[i] # Zero THEN FDiv(vector[i], scaling[i])
        ELSE vector[i]]

\* RuizScaler::scale_bounds
ScaleBounds(bounds, scaling) ==
    LET k == Min(Min(Len(bounds.lower), Len(bounds.upper)), Len(scaling))
    IN  [lower |-> [i \in 1..Len(bounds.lower) |->
                      IF i <= k /\ scaling[i] # Zero THEN FMul(bounds.lower[i], scaling[i])
                      ELSE bounds.lower[i]],
         upper |-> [i \in 1..Len(bounds.upper) |->
                      IF i <= k /\ scaling[i] # Zero THEN FMul(bounds.upper[i], scaling[i])
                      ELSE bounds.upper[i]]]

ScaleBlock(block, scaling) ==
    IF IsSome(block)
    THEN Some([Get(block) EXCEPT !.matrix = ApplyColumnScaling(@, scaling)])
    ELSE None

EquilibrateBlock(block, scaling) ==
    IF IsSome(block) THEN EquilibrateColumns(Get(block).matrix, scaling, 0) ELSE scaling

\* the sweeps of scale_qp: quadratic, inequalities, equalities, each sweep
RECURSIVE QpSweeps(_, _, _)
QpSweeps(problem, scaling, k) ==
    IF k = 0 THEN scaling
    ELSE QpSweeps(problem,
            EquilibrateBlock(problem.equalities,
                EquilibrateBlock(problem.inequalities,
                    EquilibrateColumns(problem.quadratic, scaling, 0))),
            k - 1)

\* the sweeps of scale_lp: inequalities, equalities, each sweep
RECURSIVE LpSweeps(_, _, _)
LpSweeps(problem, scaling, k) ==
    IF k = 0 THEN scaling
    ELSE LpSweeps(problem,
            EquilibrateBlock(problem.equalities,
                EquilibrateBlock(problem.inequalities, scaling)),
            k - 1)

\* a start from ones whatever the stored scaling
ScalingAtStartReset(scaler, n) == Repeat(One, n)

\* the scaling scale_qp / scale_lp start from on a problem with n variables
ScalingAtStart(scaler, n) ==
    IF Len(scaler.column_scaling) # n THEN Repeat(One, n) ELSE scaler.column_scaling

\* RuizScaler::scale_qp: the scaler and the problem after the call
ScaleQp(scaler, problem) ==
    LET n == QpNvars(problem)
        s0 == ScalingAtStart(scaler, n)
    IN  With(QpSweeps(problem, s0, scaler.iterations), LAMBDA s :
            [scaler |-> [scaler EXCEPT !.column_scaling = s],
             problem |-> [quadratic |-> ApplyColumnScaling(problem.quadratic, s),
                          linear |-> ApplyVectorScaling(problem.linear, s),
                          inequalities |-> ScaleBlock(problem.inequalities, s),
                          equalities |-> ScaleBlock(problem.equalities, s),
                          bounds |-> IF IsSome(problem.bounds)
                                     THEN Some(ScaleBounds(Get(problem.bounds), s))
                                     ELSE None]])

\* RuizScaler::scale_lp
ScaleLp(scaler, problem) ==
    LET n == LpNvars(problem)
        s0 == ScalingAtStart(scaler, n)
    IN  With(LpSweeps(problem, s0, scaler.iterations), LAMBDA s :
            [scaler |-> [scaler EXCEPT !.column_scaling = s],
             problem |-> [cost |-> ApplyVectorScaling(problem.cost, s),
                          inequalities |-> ScaleBlock(problem.inequalities, s),
                          equalities |-> ScaleBlock(problem.equalities, s),
                          bounds |-> IF IsSome(problem.bounds)
                                     THEN Some(ScaleBounds(Get(problem.bounds), s))
                                     ELSE None]])

\* unscale_primal multiplying by the scale where the source divides
UnscalePrimalMul(scaler, primal) ==
    IF Len(primal) = Len(scaler.column_scaling)
    THEN [i \in 1..Len(primal) |->
            IF scaler.column_scaling[i] # Zero
            THEN FMul(primal[i], scaler.column_scaling[i]) ELSE primal[i]]
    ELSE primal

\* RuizScaler::unscale_primal
UnscalePrimal(scaler, primal) ==
    IF Len(primal) = Len(scaler.column_scaling)
    THEN [i \in 1..Len(primal) |->
            IF scaler.column_scaling[i] # Zero
            THEN FDiv(primal[i], scaler.column_scaling[i]) ELSE primal[i]]
    ELSE primal

\* unscale_stats dropping the history
UnscaleStatsCleared(scaler, stats) == [stats EXCEPT !.history = <<>>]

\* RuizScaler::unscale_stats
UnscaleStats(scaler, stats) == stats

-----------------------------------------------------------------------------
(* DenseKktMatrix / DenseKktSolver  (crates/linsys/src/dense.rs) *)

\* DenseKktMatrix::entry
Entry(matrix, row, col) == At(matrix.data, row * matrix.dimension + col)

\* DenseKktSolver::l
LAt(l, dim, row, col) == At(l, row * dim + col)

Identity(dim) == [idx \in 1..(dim * dim) |->
                    IF (idx - 1) \div dim = (idx - 1) % dim THEN One ELSE Zero]

KktNew == [dimension |-> 0, l |-> <<>>, d |-> <<>>, analyzed |-> FALSE, last_factor |-> 0]

AnalyzePattern(s, dim) ==
    [s EXCEPT !.dimension = dim, !.l = Identity(dim), !.d = Repeat(Zero, dim),
              !.analyzed = TRUE]

\* SubLLD with the factor D(k) left out
RECURSIVE SubLLDNoD(_, _, _, _, _, _, _)
SubLLDNoD(acc, l, d, dim, i, j, k) ==
    IF k >= j THEN acc
    ELSE SubLLDNoD(FSub(acc, FMul(LAt(l, dim, i, k), LAt(l, dim, j, k))),
                   l, d, dim, i, j, k + 1)

\* sum over k = 0..j-1 of L(i,k) * L(j,k) * D(k), subtracted from acc in loop order
RECURSIVE SubLLD(_, _, _, _, _, _, _)
SubLLD(acc, l, d, dim, i, j, k) ==
    IF k >= j THEN acc
    ELSE SubLLD(FSub(acc, FMul(FMul(LAt(l, dim, i, k), LAt(l, dim, j, k)), At(d, k))),
                l, d, dim, i, j, k + 1)

\* FactorColumns without the test of the pivot against 1e-12
RECURSIVE FactorColumnsNoCheck(_, _, _, _, _)
FactorColumnsNoCheck(matrix, dim, j, l, d) ==
    IF j >= dim THEN [ok |-> TRUE, l |-> l, d |-> d, col |-> dim, mag |-> Zero]
    ELSE LET d_j == SubLLD(Entry(matrix, j, j), l, d, dim, j, j, 0)
             d2 == [d EXCEPT ![j + 1] = d_j]
             l2 == [idx \in 1..(dim * dim) |->
                      LET i == (idx - 1) \div dim
                          c == (idx - 1) % dim
                      IN  IF c = j /\ i > j
                          THEN FDiv(SubLLD(Entry(matrix, i, j), l, d2, dim, i, j, 0), d_j)
                          ELSE l[idx]]
         IN  FactorColumnsNoCheck(matrix, dim, j + 1, l2, d2)

\* the column loop of factor, from column j on
RECURSIVE FactorColumns(_, _, _, _, _)
FactorColumns(matrix, dim, j, l, d) ==
    IF j >= dim THEN [ok |-> TRUE, l |-> l, d |-> d, col |-> dim, mag |-> Zero]
    ELSE LET d_j == SubLLD(Entry(matrix, j, j), l, d, dim, j, j, 0)
         IN  IF LeEps(FAbs(d_j))
             THEN [ok |-> FALSE, l |-> l, d |-> d, col |-> j, mag |-> FAbs(d_j)]
             ELSE LET d2 == [d EXCEPT ![j + 1] = d_j]
                      l2 == [idx \in 1..(dim * dim) |->
                               LET i == (idx - 1) \div dim
                                   c == (idx - 1) % dim
                               IN  IF c = j /\ i > j
                                   THEN FDiv(SubLLD(Entry(matrix, i, j), l, d2, dim, i, j, 0), d_j)
                                   ELSE l[idx]]
                  IN  FactorColumns(matrix, dim, j + 1, l2, d2)

\* Factor without the reset of L to the identity
FactorNoReset(s, matrix) ==
    LET s1 == IF ~s.analyzed THEN AnalyzePattern(s, matrix.dimension) ELSE s
    IN  IF matrix.dimension # s1.dimension
        THEN [solver |-> s1, err |-> "dimension", col |-> 0, mag |-> Zero]
        ELSE LET r == FactorColumns(matrix, s1.dimension, 0, s1.l, s1.d)
             IN  IF r.ok
                 THEN [solver |-> [s1 EXCEPT !.l = r.l, !.d = r.d,
                                             !.last_factor = s1.last_factor + 1],
                       err |-> "none", col |-> r.col, mag |-> Zero]
                 ELSE [solver |-> [s1 EXCEPT !.l = r.l, !.d = r.d],
                       err |-> "pivot", col |-> r.col, mag |-> r.mag]

\* DenseKktSolver::factor: the solver after the call and the result
\* err: "none" | "dimension" | "pivot"
Factor(s, matrix) ==
    LET s1 == IF ~s.analyzed THEN AnalyzePattern(s, matrix.dimension) ELSE s
    IN  IF matrix.dimension # s1.dimension
        THEN [solver |-> s1, err |-> "dimension", col |-> 0, mag |-> Zero]
        ELSE LET r == FactorColumns(matrix, s1.dimension, 0, Identity(s1.dimension), s1.d)
             IN  IF r.ok
                 THEN [solver |-> [s1 EXCEPT !.l = r.l, !.d = r.d,
                                             !.last_factor = s1.last_factor + 1],
                       err |-> "none", col |-> r.col, mag |-> Zero]
                 ELSE [solver |-> [s1 EXCEPT !.l = r.l, !.d = r.d],
                       err |-> "pivot", col |-> r.col, mag |-> r.mag]

\* forward substitution: rhs[i] -= L(i,j) * rhs[j], j < i, i ascending
RECURSIVE ForwardRow(_, _, _, _, _)
ForwardRow(rhs, l, dim, i, j) ==
    IF j >= i THEN rhs
    ELSE ForwardRow([rhs EXCEPT ![i + 1] = FSub(@, FMul(LAt(l, dim, i, j), At(rhs, j)))],
                    l, dim, i, j + 1)

RECURSIVE Forward(_, _, _, _)
Forward(rhs, l, dim, i) ==
    IF i >= dim THEN rhs ELSE Forward(ForwardRow(rhs, l, dim, i, 0), l, dim, i + 1)

\* diagonal step: stops at the first i with |d[i]| <= 1e-12
RECURSIVE Diagonal(_, _, _, _)
Diagonal(rhs, d, dim, i) ==
    IF i >= dim THEN [ok |-> TRUE, rhs |-> rhs, at |-> dim]
    ELSE IF LeEps(FAbs(At(d, i))) THEN [ok |-> FALSE, rhs |-> rhs, at |-> i]
    ELSE Diagonal([rhs EXCEPT ![i + 1] = FDiv(@, At(d, i))], d, dim, i + 1)

\* back substitution: rhs[i] -= L(j,i) * rhs[j], j > i, i descending
RECURSIVE BackRow(_, _, _, _, _)
BackRow(rhs, l, dim, i, j) ==
    IF j >= dim THEN rhs
    ELSE BackRow([rhs EXCEPT ![i + 1] = FSub(@, FMul(LAt(l, dim, j, i), At(rhs, j)))],
                 l, dim, i, j + 1)

RECURSIVE Back(_, _, _, _)
Back(rhs, l, dim, i) ==
    IF i < 0 THEN rhs ELSE Back(BackRow(rhs, l, dim, i, i + 1), l, dim, i - 1)

\* DenseKktSolver::solve: rhs after the call and the result
\* err: "none" | "length" | "singular"
KktSolve(s, rhs) ==
    IF Len(rhs) # s.dimension THEN [rhs |-> rhs, err |-> "length", at |-> 0]
    ELSE LET f == Forward(rhs, s.l, s.dimension, 0)
             g == Diagonal(f, s.d, s.dimension, 0)
         IN  IF ~g.ok THEN [rhs |-> g.rhs, err |-> "singular", at |-> g.at]
             ELSE [rhs |-> Back(g.rhs, s.l, s.dimension, s.dimension - 1),
                   err |-> "none", at |-> s.dimension]

-----------------------------------------------------------------------------
(* AdmmWorkspace, LinearSystem and the ADMM loop  (crates/algos/src/admm.rs) *)

\* scatter_csc, from entry idx of column col on: the target after the writes
RECURSIVE ScatterCsc(_, _, _, _, _, _)
ScatterCsc(matrix, ncols, offset, target, col, idx) ==
    IF col >= matrix.ncols THEN target
    ELSE IF idx >= At(matrix.indptr, col + 1)
         THEN ScatterCsc(matrix, ncols, offset, target, col + 1, At(matrix.indptr, col + 1))
    ELSE LET dest_row == offset + At(matrix.indices, idx)
         IN  ScatterCsc(matrix, ncols, offset,
                        [target EXCEPT ![dest_row * ncols + col + 1] = At(matrix.data, idx)],
                        col, idx + 1)

Scatter(matrix, ncols, offset, target) ==
    ScatterCsc(matrix, ncols, offset, target, 0, At(matrix.indptr, 0))

CscToDense(matrix) ==
    Scatter(matrix, matrix.ncols, 0, Repeat(Zero, matrix.nrows * matrix.ncols))

\* compute_ata that keeps the diagonal of A^T A alone
ComputeAtaDiagonal(a, m, n) ==
    [k \in 1..(n * n) |->
        LET i == (k - 1) \div n
            j == (k - 1) % n
        IN  IF i # j THEN Zero
            ELSE SumTo([row \in 0..(m - 1) |-> FMul(At(a, row * n + i), At(a, row * n + i))], m)]

ComputeAta(a, m, n) ==
    [k \in 1..(n * n) |->
        LET i == (k - 1) \div n
            j == (k - 1) % n
        IN  SumTo([row \in 0..(m - 1) |-> FMul(At(a, row * n + i), At(a, row * n + j))], m)]

MultiplyDense(matrix, rows, cols, x) ==
    [r \in 1..rows |->
        SumTo([col \in 0..(cols - 1) |-> FMul(At(matrix, (r - 1) * cols + col), At(x, col))],
              cols)]

\* IdentityCsc(n, value): value on the diagonal of an n x n matrix
IdentityCsc(n, value) ==
    [nrows |-> n, ncols |-> n, indptr |-> [i \in 1..(n + 1) |-> i - 1],
     indices |-> [i \in 1..n |-> i - 1], data |-> Repeat(value, n)]

\* the rows an optional block contributes to the stacked matrix
BlockRows(block) == IF IsSome(block) THEN Get(block).matrix.nrows ELSE 0

\* AdmmWorkspace::new
WorkspaceNew(problem) ==
    LET n == QpNvars(problem)
        meq == BlockRows(problem.equalities)
        mineq == BlockRows(problem.inequalities)
        has_bounds == IsSome(problem.bounds)
        m == meq + mineq + (IF has_bounds THEN Len(Get(problem.bounds).lower) ELSE 0)
        a0 == Repeat(Zero, m * n)
        a1 == IF IsSome(problem.equalities)
              THEN Scatter(Get(problem.equalities).matrix, n, 0, a0) ELSE a0
        a2 == IF IsSome(problem.inequalities)
              THEN Scatter(Get(problem.inequalities).matrix, n, meq, a1) ELSE a1
        row_offset == meq + mineq
        a_dense == [k \in 1..(m * n) |->
                      LET row == (k - 1) \div n
                          col == (k - 1) % n
                      IN  IF has_bounds /\ row >= row_offset /\ row - row_offset < n
                             /\ col = row - row_offset
                          THEN One ELSE a2[k]]
        lower == [r \in 1..m |->
                    IF r <= meq THEN Get(problem.equalities).rhs[r]
                    ELSE IF r <= row_offset \/ r - row_offset > n THEN NegInf
                    ELSE Get(problem.bounds).lower[r - row_offset]]
        upper == [r \in 1..m |->
                    IF r <= meq THEN Get(problem.equalities).rhs[r]
                    ELSE IF r <= row_offset THEN Get(problem.inequalities).rhs[r - meq]
                    ELSE IF r - row_offset > n THEN PosInf
                    ELSE Get(problem.bounds).upper[r - row_offset]]
    IN  [n |-> n, m |-> m, p_base |-> CscToDense(problem.quadratic),
         ata |-> ComputeAta(a_dense, m, n), a_dense |-> a_dense,
         lower |-> lower, upper |-> upper]

\* AdmmWorkspace::multiply_a and multiply_at
MultiplyA(ws, x) == MultiplyDense(ws.a_dense, ws.m, ws.n, x)
MultiplyAt(ws, dual) ==
    [c \in 1..ws.n |->
        SumTo([row \in 0..(ws.m - 1) |->
                  FMul(At(ws.a_dense, row * ws.n + c - 1), At(dual, row))], ws.m)]

\* compute_objective
ComputeObjective(problem, p_dense, x) ==
    LET n == QpNvars(problem)
    IN  FAdd(Dot(problem.linear, x), FMul(Half, Dot(x, MultiplyDense(p_dense, n, n, x))))

\* LinearSystem::new
LinSysNew(base, ata, n) ==
    [n |-> n, base |-> base, ata |-> ata, buffer |-> base,
     solver |-> AnalyzePattern(KktNew, n), current_rho |-> None]

\* a cache test that never holds
SameRhoNever(prev, rho) == FALSE

\* the cache test of LinearSystem::factor: |prev - rho| <= 1e-12 * (1 + |rho|)
SameRho(prev, rho) == LeEps(FDiv(FAbs(FSub(prev, rho)), FAdd(One, FAbs(rho))))

\* LinearSystem::factor: the system after the call and the result;
\* called tells whether the solver's factor ran
LinSysFactor(ls, rho) ==
    IF IsSome(ls.current_rho) /\ SameRho(Get(ls.current_rho), rho)
    THEN [lin |-> ls, err |-> "none", called |-> FALSE, col |-> 0, mag |-> Zero]
    ELSE With([i \in 1..(ls.n * ls.n) |-> FAdd(ls.base[i], FMul(rho, ls.ata[i]))],
              LAMBDA buffer :
         With(Factor(ls.solver, [dimension |-> ls.n, data |-> buffer]), LAMBDA f :
            [lin |-> [ls EXCEPT !.buffer = buffer, !.solver = f.solver,
                                !.current_rho = IF f.err = "none" THEN Some(rho) ELSE @],
             err |-> f.err, called |-> TRUE, col |-> f.col, mag |-> f.mag]))

\* LinearSystem::solve that leaves the right-hand side as it is
LinSysSolveSkip(ls, rhs) == [KktSolve(ls.solver, rhs) EXCEPT !.rhs = rhs]

\* LinearSystem::solve
LinSysSolve(ls, rhs) == KktSolve(ls.solver, rhs)

\* most iterations an option set allows
MaxIter == 3

\* SolveOptions::default, with the tolerance and the iteration limit of the
\* solves followed
BaseOptions ==
    [tolerance |-> <<1, 1000>>, max_iterations |-> MaxIter, max_time |-> None,
     admm_rho |-> One, admm_relaxation |-> <<3, 2>>, admm_adaptive_rho |-> TRUE]

\* SolveStats::new
StatsNew == [history |-> <<>>, solve_time |-> 0, factorizations |-> 0, linear_solves |-> 0]

\* the stopping test with the dual residual left out
ConvergedNoDual(pr_norm, du_norm, gap, tol) == FLe(pr_norm, tol) /\ FLe(gap, tol)

\* the stopping test of the loop
Converged(pr_norm, du_norm, gap, tol) ==
    FLe(pr_norm, tol) /\ FLe(du_norm, tol) /\ FLe(gap, tol)

\* the tests at the end of a pass with the time limit tested first
StopTestTimeFirst(pr_norm, du_norm, gap, options, elapsed) ==
    IF IsSome(options.max_time) /\ elapsed > Get(options.max_time) THEN "MaxTime"
    ELSE IF Converged(pr_norm, du_norm, gap, options.tolerance) THEN "Optimal"
    ELSE "none"

\* the tests at the end of a pass: the status the loop breaks with, "none" to go on
StopTest(pr_norm, du_norm, gap, options, elapsed) ==
    IF Converged(pr_norm, du_norm, gap, options.tolerance) THEN "Optimal"
    ELSE IF IsSome(options.max_time) /\ elapsed > Get(options.max_time) THEN "MaxTime"
    ELSE "none"

\* the adaptive rule with a factor of 1 in place of 10
AdaptRhoEager(rho, pr_norm, du_norm) ==
    IF FGt(pr_norm, du_norm) THEN FMul(rho, Int2R(2))
    ELSE IF FGt(du_norm, pr_norm) THEN FDiv(rho, Int2R(2))
    ELSE rho

\* the adaptive rule: rho for the next iteration
AdaptRho(rho, pr_norm, du_norm) ==
    IF FGt(pr_norm, FMul(Int2R(10), du_norm)) THEN FMul(rho, Int2R(2))
    ELSE IF FGt(du_norm, FMul(Int2R(10), pr_norm)) THEN FDiv(rho, Int2R(2))
    ELSE rho

\* the start point that ignores the warm start
InitialPrimalCold(warm_start, n) == Repeat(Zero, n)

\* the start point of solve_qp on n variables
InitialPrimal(warm_start, n) ==
    IF IsSome(warm_start) /\ Len(Get(warm_start).primal) = n
    THEN Get(warm_start).primal ELSE Repeat(Zero, n)

\* solve_qp from scale_qp to the loop: the scaler after scale_qp and the locals
\* the loop starts with
SolveQpStart(options, warm_start, problem0, scaler) ==
    With(ScaleQp(scaler, problem0), LAMBDA sc :
    With(WorkspaceNew(sc.problem), LAMBDA ws :
    With(InitialPrimal(warm_start, ws.n), LAMBDA x :
        [scaler |-> sc.scaler,
         locals |->
            [problem |-> sc.problem, ws |-> ws,
             lin |-> LinSysNew(ws.p_base, ws.ata, ws.n),
             x |-> x, z |-> ProjectBox(MultiplyA(ws, x), ws.lower, ws.upper),
             y |-> Repeat(Zero, ws.m), rho |-> options.admm_rho, iter |-> 0,
             status |-> "MaxIterations",
             last_objective |-> ComputeObjective(sc.problem, ws.p_base, x),
             dual_objective |-> Zero, stats |-> StatsNew]])))

\* the rest of a pass of the loop, from the new x, A x, z and y on
PassEnd(r, options, elapsed, lin, x, ax, z, y) ==
    LET ws == r.ws
        rho == r.rho
        z_old == r.z
    IN  With([i \in 1..ws.m |-> FSub(ax[i], z[i])], LAMBDA primal_residual :
        With(MultiplyAt(ws, [i \in 1..ws.m |-> FMul(FSub(z_old[i], z[i]), rho)]),
             LAMBDA dual_residual_vec :
        With(ComputeObjective(r.problem, ws.p_base, x), LAMBDA objective :
        With(FSub(objective, Dot(y, primal_residual)), LAMBDA dual_objective :
        With(ResidualsInf(primal_residual, dual_residual_vec), LAMBDA norms :
        With(RelativeGap(objective, dual_objective), LAMBDA gap :
            LET pr_norm == norms[1]
                du_norm == norms[2]
                record == [iteration |-> r.iter, primal_residual |-> pr_norm,
                           dual_residual |-> du_norm, relative_gap |-> gap, rho |-> rho,
                           relaxation |-> options.admm_relaxation,
                           primal_objective |-> objective,
                           dual_objective |-> dual_objective, elapsed |-> elapsed]
                after == [r EXCEPT !.lin = lin, !.x = x, !.z = z, !.y = y,
                                   !.last_objective = objective,
                                   !.dual_objective = dual_objective,
                                   !.stats = [@ EXCEPT !.factorizations = @ + 1,
                                                       !.linear_solves = @ + 1,
                                                       !.history = Append(@, record)]]
                stop == StopTest(pr_norm, du_norm, gap, options, elapsed)
            IN  IF stop # "none"
                THEN [err |-> "none", col |-> 0, mag |-> Zero, brk |-> TRUE,
                      state |-> [after EXCEPT !.status = stop]]
                ELSE [err |-> "none", col |-> 0, mag |-> Zero, brk |-> FALSE,
                      state |-> [after EXCEPT
                                    !.iter = @ + 1,
                                    !.rho = IF options.admm_adaptive_rho
                                            THEN AdaptRho(rho, pr_norm, du_norm)
                                            ELSE @]]))))))

\* the multiplier step with the sign of the residual reversed
DualUpdateDescent(y, rho, ax, z) ==
    [i \in 1..Len(y) |-> FSub(y[i], FMul(rho, FSub(ax[i], z[i])))]

\* the multiplier step of a pass: y[i] += rho * (ax[i] - z[i])
DualUpdate(y, rho, ax, z) ==
    [i \in 1..Len(y) |-> FAdd(y[i], FMul(rho, FSub(ax[i], z[i])))]

\* a pass of the loop after its factorization succeeded: the x update, then
\* the z and y updates
PassSolve(r, options, elapsed, lin) ==
    LET ws == r.ws
        rho == r.rho
    IN  With(MultiplyAt(ws, [i \in 1..ws.m |-> FSub(r.z[i], FDiv(r.y[i], rho))]),
             LAMBDA at_tmp :
        With(LinSysSolve(lin, [i \in 1..ws.n |->
                                  FSub(FMul(rho, at_tmp[i]), r.problem.linear[i])]),
             LAMBDA sol :
            IF sol.err # "none"
            THEN [err |-> sol.err, col |-> sol.at, mag |-> Zero, brk |-> TRUE,
                  state |-> [r EXCEPT !.lin = lin,
                                      !.stats = [@ EXCEPT !.factorizations = @ + 1]]]
            ELSE With(MultiplyA(ws, sol.rhs), LAMBDA ax :
                 With(ProjectBox([i \in 1..ws.m |-> FAdd(ax[i], FDiv(r.y[i], rho))],
                                 ws.lower, ws.upper), LAMBDA z :
                 With(DualUpdate(r.y, rho, ax, z), LAMBDA y :
                     PassEnd(r, options, elapsed, lin, sol.rhs, ax, z, y))))))

\* a pass whose failed factorization ends the loop with a status
LoopBodyFailureStatus(r, options, elapsed) ==
    With(LinSysFactor(r.lin, r.rho), LAMBDA f :
        IF f.err # "none"
        THEN [err |-> "none", col |-> 0, mag |-> Zero, brk |-> TRUE,
              state |-> [r EXCEPT !.lin = f.lin, !.status = "NumericalFailure"]]
        ELSE PassSolve(r, options, elapsed, f.lin))

\* one pass of the loop body on the locals r, the timer reading `elapsed`:
\* err is "none" or the error the pass returns with, brk tells whether the
\* pass left the loop, state is the locals after the pass
LoopBody(r, options, elapsed) ==
    With(LinSysFactor(r.lin, r.rho), LAMBDA f :
        IF f.err # "none"
        THEN [err |-> f.err, col |-> f.col, mag |-> f.mag, brk |-> TRUE,
              state |-> [r EXCEPT !.lin = f.lin]]
        ELSE PassSolve(r, options, elapsed, f.lin))

\* a Solution without the multipliers
SolutionOfNoDual(r, scaler, elapsed) ==
    [primal |-> UnscalePrimal(scaler, r.x), equality_dual |-> <<>>,
     inequality_dual |-> <<>>, status |-> r.status, objective_value |-> r.last_objective,
     iterations |-> Len(r.stats.history),
     stats |-> UnscaleStats(scaler, [r.stats EXCEPT !.solve_time = elapsed])]

\* a Solution with the equality rows of y in equality_dual
SolutionOfSplitDual(r, scaler, elapsed) ==
    LET meq == BlockRows(r.problem.equalities)
    IN  [primal |-> UnscalePrimal(scaler, r.x), equality_dual |-> SubSeq(r.y, 1, meq),
         inequality_dual |-> SubSeq(r.y, meq + 1, Len(r.y)), status |-> r.status,
         objective_value |-> r.last_objective, iterations |-> Len(r.stats.history),
         stats |-> UnscaleStats(scaler, [r.stats EXCEPT !.solve_time = elapsed])]

\* solve_qp after the loop: the Solution returned
SolutionOf(r, scaler, elapsed) ==
    [primal |-> UnscalePrimal(scaler, r.x), equality_dual |-> <<>>,
     inequality_dual |-> r.y, status |-> r.status, objective_value |-> r.last_objective,
     iterations |-> Len(r.stats.history),
     stats |-> UnscaleStats(scaler, [r.stats EXCEPT !.solve_time = elapsed])]

\* the LP as a QP with a unit diagonal regularizer
LpAsQpRegularized(problem) ==
    [quadratic |-> IdentityCsc(LpNvars(problem), One), linear |-> problem.cost,
     inequalities |-> problem.inequalities, equalities |-> problem.equalities,
     bounds |-> problem.bounds]

\* the ProblemQP solve_lp hands to solve_qp
LpAsQp(problem) ==
    [quadratic |-> IdentityCsc(LpNvars(problem), Zero), linear |-> problem.cost,
     inequalities |-> problem.inequalities, equalities |-> problem.equalities,
     bounds |-> problem.bounds]

\* the loop of solve_qp from the locals r to the return, the timer reading
\* elapsed throughout
RECURSIVE RunLoop(_, _, _, _)
RunLoop(r, options, scaler, elapsed) ==
    IF r.iter >= options.max_iterations
    THEN [kind |-> "Ok", solution |-> SolutionOf(r, scaler, elapsed)]
    ELSE With(LoopBody(r, options, elapsed), LAMBDA b :
            IF b.err # "none"
            THEN [kind |-> "Err", error |-> [kind |-> b.err, col |-> b.col, mag |-> b.mag]]
            ELSE IF b.brk
            THEN [kind |-> "Ok", solution |-> SolutionOf(b.state, scaler, elapsed)]
            ELSE RunLoop(b.state, options, scaler, elapsed))

\* AdmmSolver::solve_qp as one call: the scaler after it and what it returns
AdmmSolveQp(options, warm_start, problem, scaler, elapsed) ==
    LET v == QpValidate(problem)
    IN  IF ~IsOk(v) THEN [scaler |-> scaler, result |-> [kind |-> "Err", error |-> v]]
        ELSE With(SolveQpStart(options, warm_start, problem, scaler), LAMBDA st :
                [scaler |-> st.scaler,
                 result |-> RunLoop(st.locals, options, st.scaler, elapsed)])

\* AdmmSolver::solve_lp as one call
AdmmSolveLp(options, warm_start, problem, scaler, elapsed) ==
    AdmmSolveQp(options, warm_start, LpAsQp(problem), scaler, elapsed)

\* what Solver::solve_qp / solve_lp make of the AdmmSolver's result
MapErr(r) ==
    IF r.kind = "Err" THEN [kind |-> "Err", error |-> [kind |-> "InvalidProblem", message |-> r.error]]
    ELSE r

Unsupported(method) == [kind |-> "Err", error |-> [kind |-> "Unsupported", method |-> method]]

\* Solver::solve_qp running the ADMM solver whatever the method
SolverSolveQpAdmm(s, problem, elapsed) ==
    With(AdmmSolveQp(s.options, s.warm_start, problem, s.scaler, elapsed), LAMBDA r :
        [solver |-> [s EXCEPT !.scaler = r.scaler], result |-> MapErr(r.result)])

\* Solver::solve_qp: the Solver after the call and what the call returns
SolverSolveQp(s, problem, elapsed) ==
    IF s.method = "Admm"
    THEN With(AdmmSolveQp(s.options, s.warm_start, problem, s.scaler, elapsed), LAMBDA r :
            [solver |-> [s EXCEPT !.scaler = r.scaler], result |-> MapErr(r.result)])
    ELSE [solver |-> s, result |-> Unsupported("Ipm")]

\* Solver::solve_lp
SolverSolveLp(s, problem, elapsed) ==
    IF s.method = "Admm"
    THEN With(AdmmSolveLp(s.options, s.warm_start, problem, s.scaler, elapsed), LAMBDA r :
            [solver |-> [s EXCEPT !.scaler = r.scaler], result |-> MapErr(r.result)])
    ELSE [solver |-> s, result |-> Unsupported("Ipm")]

-----------------------------------------------------------------------------
(* Call sequences on one DenseKktSolver *)

\* largest matrix dimension and number of successful factorizations explored
MaxDim == 2
MaxFactor == 2

KktValues == {Int2R(-1), Zero, Int2R(2)}
RhsValues == {Zero, One}

Dims == 0..MaxDim

\* dense dim x dim matrices: the diagonal alternates between two values of
\* KktValues, every place below the diagonal holds one value of KktValues, and
\* every place above it the same value (a symmetric matrix) or zero; up to
\* dimension 2 these are all the symmetric matrices over KktValues
KktMatrixOf(dim, even, odd, off, sym) ==
    [dimension |-> dim,
     data |-> [idx \in 1..(dim * dim) |->
                 LET i == (idx - 1) \div dim
                     j == (idx - 1) % dim
                 IN  IF i = j THEN (IF i % 2 = 0 THEN even ELSE odd)
                     ELSE IF i > j \/ sym THEN off ELSE Zero]]

KktMatrices ==
    UNION {{KktMatrixOf(dim, even, odd, off, sym) :
                even \in KktValues, odd \in KktValues, off \in KktValues,
                sym \in BOOLEAN}
           : dim \in Dims}

Vectors(vals, maxLen) == UNION {[1..len -> vals] : len \in 0..maxLen}

IsSymmetric(matrix) ==
    \A i, j \in 0..(matrix.dimension - 1) : Entry(matrix, i, j) = Entry(matrix, j, i)

-----------------------------------------------------------------------------
(* Timer  (crates/core/src/math.rs); `now` is the reading of Instant::now *)

\* Solver::new
SolverNew ==
    [method |-> "Admm", options |-> BaseOptions, scaler |-> RuizNew(5), warm_start |-> None]

-----------------------------------------------------------------------------
(* The GUI's solve task  (crates/gui/src/main.rs) *)

\* CvxrsApp::new: the fields the handlers of the solve task write; the method,
\* the three option inputs and the write_solution box are only ever written by
\* the user and are given to start_solve as what is typed at the click
AppNew ==
    [problem_path |-> None, problem_input |-> "", output_path |-> None, output_input |-> "",
     banner |-> Some("Info")]

TaskIdle == [kind |-> "Idle"]
TaskRunning == [kind |-> "Running"]
TaskSuccess(path) == [kind |-> "Success", problem_path |-> path]
TaskFailure(message) == [kind |-> "Failure", message |-> message]

\* CvxrsApp::is_busy
IsBusy(state) == state.kind = "Running"

\* CvxrsApp::path_from_input, `existing` the paths that exist
PathFromInput(input, existing) ==
    IF input = "" THEN None ELSE IF input \in existing THEN Some(input) ELSE None

\* parse_optional: nothing for an empty input, else what the parser makes of it
ParseOptional(input, parsed) ==
    IF input = "" THEN [ok |-> TRUE, value |-> None]
    ELSE IF IsSome(parsed) THEN [ok |-> TRUE, value |-> parsed]
    ELSE [ok |-> FALSE, value |-> None]

\* parse_optional_f64, on the inputs typed
ParseOptionalF64(input) ==
    ParseOptional(input, IF input = "0.25" THEN Some(<<1, 4>>) ELSE None)

\* parse_optional_usize, on the inputs typed
ParseOptionalUsize(input) ==
    ParseOptional(input, IF input = "1" THEN Some(1) ELSE None)

\* parse_optional_u64, on the inputs typed
ParseOptionalU64(input) ==
    ParseOptional(input, IF input = "0" THEN Some(0) ELSE None)

\* CvxrsApp::set_banner
SetBanner(app, kind) == [app EXCEPT !.banner = Some(kind)]

\* CvxrsApp::set_failure: the app and the shared task state after it
SetFailure(app, state, message) ==
    [app |-> SetBanner(app, "Error"), state |-> TaskFailure(message)]

\* CvxrsApp::on_problem_selected
OnProblemSelected(app, path, existing) ==
    IF path \in existing
    THEN [app EXCEPT !.problem_input = path, !.problem_path = Some(path)]
    ELSE app

\* scatter_csc called by csc_to_dense writes past the end of the dense target
\* for some stored entry: the index of the write is out of bounds
CscToDensePanics(matrix) ==
    \E col \in 0..(matrix.ncols - 1) :
        \E idx \in At(matrix.indptr, col)..(At(matrix.indptr, col + 1) - 1) :
            At(matrix.indices, idx) * matrix.ncols + col >= matrix.nrows * matrix.ncols

\* solve_problem: "Ok", "Err", or "Panic" when the worker thread unwinds;
\* `wrote` tells whether write_solution succeeds
SolveProblem(method, file, tolerance, max_iters, time_limit, output_path, wrote) ==
    LET o1 == IF IsSome(tolerance) THEN [BaseOptions EXCEPT !.tolerance = Get(tolerance)]
              ELSE BaseOptions
        o2 == IF IsSome(max_iters) THEN [o1 EXCEPT !.max_iterations = Get(max_iters)] ELSE o1
        options == IF IsSome(time_limit) THEN [o2 EXCEPT !.max_time = time_limit] ELSE o2
        solver == [SolverNew EXCEPT !.method = method, !.options = options]
    IN  IF file.ext = "json"
        THEN IF ~IsSome(file.content) THEN "Err"
             ELSE LET p == Get(file.content)
                  IN  IF method = "Admm" /\ p.kind = "qp" /\ IsOk(QpValidate(p.problem))
                         /\ CscToDensePanics(p.problem.quadratic)
                      THEN "Panic"
                      ELSE LET r == IF p.kind = "qp"
                                    THEN SolverSolveQp(solver, p.problem, 0).result
                                    ELSE SolverSolveLp(solver, p.problem, 0).result
                           IN  IF r.kind # "Ok" THEN "Err"
                               ELSE IF IsSome(output_path) /\ ~wrote THEN "Err"
                               ELSE "Ok"
        ELSE "Err"

\* CvxrsApp::start_solve up to the spawn: the app and the shared state after
\* it, and the arguments of the worker it spawns, if it spawns one
StartSolve(app, state, typed, existing) ==
    IF IsBusy(state) THEN [app |-> app, state |-> state, spawn |-> None]
    ELSE LET app1 == IF ~IsSome(app.problem_path)
                        /\ IsSome(PathFromInput(app.problem_input, existing))
                     THEN [app EXCEPT !.problem_path = PathFromInput(app.problem_input, existing)]
                     ELSE app
             tolerance == ParseOptionalF64(typed.tolerance_input)
             max_iters == ParseOptionalUsize(typed.max_iters_input)
             time_limit == ParseOptionalU64(typed.time_limit_input)
             app2 == IF typed.write_solution /\ ~IsSome(app1.output_path)
                        /\ app1.output_input # ""
                     THEN [app1 EXCEPT !.output_path = Some(app1.output_input)]
                     ELSE app1
             fail(a, message) == SetFailure(a, state, message) @@ [spawn |-> None]
         IN  IF ~IsSome(app1.problem_path) THEN fail(app1, "problem")
             ELSE IF ~tolerance.ok THEN fail(app1, "tolerance")
             ELSE IF ~max_iters.ok THEN fail(app1, "iterations")
             ELSE IF ~time_limit.ok THEN fail(app1, "time limit")
             ELSE IF typed.write_solution /\ ~IsSome(app2.output_path)
             THEN fail(app2, "output")
             ELSE [app |-> SetBanner(app2, "Info"), state |-> TaskRunning,
                   spawn |-> Some([method |-> typed.method,
                                   problem_path |-> Get(app2.problem_path),
                                   tolerance |-> tolerance.value,
                                   max_iters |-> max_iters.value,
                                   time_limit |-> time_limit.value,
                                   output_path |-> IF typed.write_solution
                                                   THEN app2.output_path ELSE None])]

\* the worker closure of start_solve once solve_problem returned `outcome`:
\* the shared state it stores
WorkerStore(w, outcome) ==
    IF outcome = "Ok" THEN TaskSuccess(w.problem_path) ELSE TaskFailure("solve")

\* CvxrsApp::load_example_problem, `wrote` telling whether write_example_problem
\* succeeds and `path` the file it writes
LoadExampleProblem(app, state, wrote, path, existing) ==
    IF wrote
    THEN [app |-> SetBanner(OnProblemSelected(app, path, existing), "Success"),
          state |-> IF state.kind # "Running" THEN TaskIdle ELSE state]
    ELSE SetFailure(app, state, "example")

\* Timer::start
TimerStart(now) == [start |-> now, elapsed |-> 0, running |-> TRUE]

\* Timer::stop
TimerStop(t, now) ==
    IF t.running THEN [t EXCEPT !.elapsed = @ + (now - t.start), !.running = FALSE] ELSE t

\* Timer::resume that keeps the start instant of the period before
TimerResumeKeepStart(t, now) == IF ~t.running THEN [t EXCEPT !.running = TRUE] ELSE t

\* Timer::resume
TimerResume(t, now) ==
    IF ~t.running THEN [t EXCEPT !.start = now, !.running = TRUE] ELSE t

\* Timer::elapsed
TimerElapsed(t, now) == IF t.running THEN t.elapsed + (now - t.start) ELSE t.elapsed

-----------------------------------------------------------------------------

NoCall == [op |-> "new"]

\* the parts of the state a specification does not use stay as constructed
KktIdle == kkt = KktNew /\ kktCall = NoCall /\ kktM = <<>>
ValidateIdle == vIn = <<>> /\ vOut = <<>>
ScaleIdle == ruiz = RuizNew(0) /\ sCall = [op |-> "none"]
NoRun == [pc |-> "idle", call |-> <<>>, loc |-> <<>>, elapsed |-> 0]
AdmmIdle == run = NoRun /\ result = <<>>
MathIdle == pb = [op |-> "none"]
ApiIdle == api = SolverNew /\ apiCall = NoCall

TimerIdle == clock = 0 /\ timer = TimerStart(0) /\ tCall = NoCall

GuiIdle == task = TaskIdle /\ workers = {} /\ gui = AppNew

KktInit ==
    /\ kkt = KktNew
    /\ kktCall = NoCall
    /\ kktM = <<>>
    /\ ValidateIdle /\ ScaleIdle /\ AdmmIdle /\ MathIdle /\ ApiIdle
    /\ TimerIdle /\ GuiIdle

\* solve takes &self and leaves the solver as it was: a sequence of calls is
\* followed up to its first solve
KktAnalyze ==
    \E dim \in Dims :
        /\ kktCall.op # "solve"
        /\ kkt' = AnalyzePattern(kkt, dim)
        /\ kktCall' = [op |-> "analyze", dim |-> dim]
        /\ kktM' = <<>>
        /\ UNCHANGED <<validateVars, scaleVars, admmVars, mathVars, apiVars,
                 timerVars, guiVars>>

KktFactor ==
    \E matrix \in KktMatrices :
        /\ kkt.last_factor < MaxFactor
        /\ kktCall.op # "solve"
        /\ LET r == Factor(kkt, matrix)
           IN  /\ kkt' = r.solver
               /\ kktCall' = [op |-> "factor", dim |-> matrix.dimension, err |-> r.err,
                              col |-> r.col, mag |-> r.mag]
               /\ kktM' = IF r.err = "none" THEN matrix
                          ELSE IF r.err = "dimension" THEN kktM ELSE <<>>
        /\ UNCHANGED <<validateVars, scaleVars, admmVars, mathVars, apiVars,
                 timerVars, guiVars>>

KktSolveCall ==
    \E rhs \in Vectors(RhsValues, MaxDim) :
        /\ LET r == KktSolve(kkt, rhs)
           IN  kktCall' = [op |-> "solve", rhs |-> rhs, err |-> r.err, out |-> r.rhs]
        /\ UNCHANGED <<kkt, kktM, validateVars, scaleVars, admmVars, mathVars, apiVars,
                 timerVars, guiVars>>

KktNext == KktAnalyze \/ KktFactor \/ KktSolveCall

SpecKkt == KktInit /\ [][KktNext]_vars

-----------------------------------------------------------------------------
(* Validation calls: ProblemQP::validate, ProblemLP::validate and the builders *)

\* largest number of variables / rows, and of stored entries, of a drawn matrix
MaxN == 1
MaxNnz == 1

SeqsUpTo(vals, maxLen) == UNION {[1..len -> vals] : len \in 0..maxLen}

\* CSC records within the bounds, well-formed or not: every combination of
\* array lengths ...
CscLengths ==
    {[nrows |-> nr, ncols |-> nc, indptr |-> Repeat(0, pl), indices |-> Repeat(0, il),
      data |-> Repeat(One, dl)] :
        nr \in 0..MaxN, nc \in 0..MaxN, pl \in 0..(MaxN + 2),
        il \in 0..MaxNnz, dl \in 0..MaxNnz}

\* ... and, for the consistent lengths, every content
CscAll ==
    CscLengths
    \cup
    UNION {{[nrows |-> nr, ncols |-> nc, indptr |-> ip, indices |-> ix,
             data |-> Repeat(One, Len(ix))] :
                nr \in 0..MaxN, ip \in [1..(nc + 1) -> 0..MaxNnz],
                ix \in SeqsUpTo(0..MaxN, MaxNnz)}
           : nc \in 0..MaxN}

\* the n x n diagonal matrix holding value
Diagonal_csc(n, value) ==
    [nrows |-> n, ncols |-> n, indptr |-> [i \in 1..(n + 1) |-> i - 1],
     indices |-> [i \in 1..n |-> i - 1], data |-> [i \in 1..n |-> value]]

\* a few matrices around the n-variable shapes
CscFew(n) ==
    {Diagonal_csc(n, One), Diagonal_csc(n + 1, One),
     [nrows |-> 0, ncols |-> n, indptr |-> Repeat(0, n + 1), indices |-> <<>>, data |-> <<>>],
     [nrows |-> n, ncols |-> n, indptr |-> Repeat(0, n), indices |-> <<>>, data |-> <<>>]}

BoundsAll ==
    {[lower |-> lo, upper |-> up] :
        lo \in SeqsUpTo({Zero, One}, MaxN + 1), up \in SeqsUpTo({Zero, One}, MaxN + 1)}

BoundsFew(n) ==
    {None, Some([lower |-> Repeat(Zero, n), upper |-> Repeat(One, n)]),
     Some([lower |-> Repeat(One, n), upper |-> Repeat(Zero, n)])}

Blocks(mats) == {[matrix |-> m, rhs |-> Repeat(One, k)] : m \in mats, k \in 0..MaxN}
OptBlocks(mats) == {None} \cup {Some(b) : b \in Blocks(mats)}

\* the constraint parts of the drawn problems: one block ranges over every
\* combination of lengths while the bounds stay among a few, or the bounds
\* range over all while the blocks stay among a few
ConstraintParts(n) ==
    {[equalities |-> e, inequalities |-> None, bounds |-> b] :
        e \in OptBlocks(CscLengths), b \in BoundsFew(n)}
    \cup
    {[equalities |-> None, inequalities |-> i, bounds |-> b] :
        i \in OptBlocks(CscLengths), b \in BoundsFew(n)}
    \cup
    {[equalities |-> e, inequalities |-> i, bounds |-> b] :
        e \in OptBlocks(CscFew(n)), i \in OptBlocks(CscFew(n)), b \in BoundsFew(n)}
    \cup
    {[equalities |-> e, inequalities |-> None, bounds |-> Some(b)] :
        e \in OptBlocks(CscFew(n)), b \in BoundsAll}
    \cup
    {[equalities |-> None, inequalities |-> i, bounds |-> Some(b)] :
        i \in OptBlocks(CscFew(n)), b \in BoundsAll}

QpOf(quadratic, linear, c) ==
    [quadratic |-> quadratic, linear |-> linear, inequalities |-> c.inequalities,
     equalities |-> c.equalities, bounds |-> c.bounds]

LpOf(cost, c) ==
    [cost |-> cost, inequalities |-> c.inequalities, equalities |-> c.equalities,
     bounds |-> c.bounds]

\* the problems validate is called on
QpInputs(n) ==
    {QpOf(P, Repeat(One, n), c) : P \in CscFew(n), c \in ConstraintParts(n)}
    \cup
    {QpOf(P, Repeat(One, n), [equalities |-> None, inequalities |-> None, bounds |-> b]) :
        P \in CscAll, b \in BoundsFew(n)}

LpInputs(n) == {LpOf(Repeat(One, n), c) : c \in ConstraintParts(n)}

\* the builders build is called on
QpBuilders(n) ==
    {[p |-> P, q |-> q, equality |-> e, inequality |-> None, bounds |-> b] :
        P \in {None} \cup {Some(x) : x \in CscFew(n)},
        q \in {None, Some(Repeat(One, n))},
        e \in {None, Some([matrix |-> Diagonal_csc(n, One), rhs |-> Repeat(One, n)]),
               Some([matrix |-> Diagonal_csc(n, One), rhs |-> Repeat(One, n + 1)])},
        b \in {None} \cup {Some(x) : x \in BoundsAll}}

LpBuilders(n) ==
    {[cost |-> q, equality |-> None, inequality |-> e, bounds |-> b] :
        q \in {None, Some(Repeat(One, n))},
        e \in {None, Some([matrix |-> Diagonal_csc(n, One), rhs |-> Repeat(One, n)]),
               Some([matrix |-> Diagonal_csc(n, One), rhs |-> Repeat(One, n + 1)])},
        b \in {None} \cup {Some(x) : x \in BoundsAll}}

ValidateInit ==
    /\ vIn = <<>>
    /\ vOut = <<>>
    /\ KktIdle /\ ScaleIdle /\ AdmmIdle /\ MathIdle /\ ApiIdle
    /\ TimerIdle /\ GuiIdle

ValidateQpCall ==
    /\ vOut = <<>>
    /\ \E n \in 0..MaxN : \E p \in QpInputs(n) :
          /\ vIn' = <<[op |-> "qp", problem |-> p]>>
          /\ vOut' = <<QpValidate(p)>>
    /\ UNCHANGED <<kktVars, scaleVars, admmVars, mathVars, apiVars,
                 timerVars, guiVars>>

ValidateLpCall ==
    /\ vOut = <<>>
    /\ \E n \in 0..MaxN : \E p \in LpInputs(n) :
          /\ vIn' = <<[op |-> "lp", problem |-> p]>>
          /\ vOut' = <<LpValidate(p)>>
    /\ UNCHANGED <<kktVars, scaleVars, admmVars, mathVars, apiVars,
                 timerVars, guiVars>>

QpBuildCall ==
    /\ vOut = <<>>
    /\ \E n \in 0..MaxN : \E b \in QpBuilders(n) :
          /\ vIn' = <<[op |-> "qp_build", problem |-> b]>>
          /\ vOut' = <<QpBuild(b)>>
    /\ UNCHANGED <<kktVars, scaleVars, admmVars, mathVars, apiVars,
                 timerVars, guiVars>>

LpBuildCall ==
    /\ vOut = <<>>
    /\ \E n \in 0..MaxN : \E b \in LpBuilders(n) :
          /\ vIn' = <<[op |-> "lp_build", problem |-> b]>>
          /\ vOut' = <<LpBuild(b)>>
    /\ UNCHANGED <<kktVars, scaleVars, admmVars, mathVars, apiVars,
                 timerVars, guiVars>>

ValidateNext == ValidateQpCall \/ ValidateLpCall \/ QpBuildCall \/ LpBuildCall

SpecValidate == ValidateInit /\ [][ValidateNext]_vars

-----------------------------------------------------------------------------
(* The scaler on its own: scale_qp, scale_lp and unscale_primal called on  *)
(* one RuizScaler, which keeps its column scaling from call to call.       *)

MaxVars == 2
MaxSweeps == 2
\* scale_* is called while no column scale is below 1 / MaxScaleDen
MaxScaleDen == 2

ScaleValues == {Zero, One, Int2R(4)}

\* n x n diagonal matrix whose diagonal alternates between two values
AlternatingDiagonal(n, even, odd) ==
    [nrows |-> n, ncols |-> n, indptr |-> [i \in 1..(n + 1) |-> i - 1],
     indices |-> [i \in 1..n |-> i - 1],
     data |-> [i \in 1..n |-> IF i % 2 = 1 THEN even ELSE odd]]

\* 1 x n matrix with every entry stored
RowCsc(n, value) ==
    [nrows |-> 1, ncols |-> n, indptr |-> [i \in 1..(n + 1) |-> i - 1],
     indices |-> Repeat(0, n), data |-> Repeat(value, n)]

\* (n+1) x n matrix whose only entry is in row n of column 0
TallCsc(n, value) ==
    [nrows |-> n + 1, ncols |-> n,
     indptr |-> [i \in 1..(n + 1) |-> IF i = 1 \/ n = 0 THEN 0 ELSE 1],
     indices |-> IF n = 0 THEN <<>> ELSE <<n>>,
     data |-> IF n = 0 THEN <<>> ELSE <<value>>]

ScaleBlocks(n) ==
    {None,
     Some([matrix |-> RowCsc(n, One), rhs |-> <<One>>]),
     Some([matrix |-> Diagonal_csc(n, Int2R(4)), rhs |-> Repeat(One, n)]),
     Some([matrix |-> TallCsc(n, Int2R(4)), rhs |-> Repeat(One, n + 1)])}

ScaleBoundsOf(n) ==
    {None,
     Some([lower |-> Repeat(Zero, n), upper |-> Repeat(One, n)]),
     Some([lower |-> Repeat(NegInf, n), upper |-> Repeat(Int2R(2), n)])}

\* the constraint parts of the drawn problems: at most one kind of block each
ScaleParts(n) ==
    {[equalities |-> None, inequalities |-> i, bounds |-> None] : i \in ScaleBlocks(n)}
    \cup
    {[equalities |-> e, inequalities |-> None, bounds |-> None] : e \in ScaleBlocks(n)}
    \cup
    {[equalities |-> None, inequalities |-> None, bounds |-> b] : b \in ScaleBoundsOf(n)}

ScaleQps(n) ==
    {QpOf(AlternatingDiagonal(n, even, odd), Repeat(One, n), c) :
        even \in ScaleValues, odd \in ScaleValues, c \in ScaleParts(n)}

ScaleLps(n) == {LpOf(Repeat(One, n), c) : c \in ScaleParts(n)}

TestVectors(n) == [1..n -> {Int2R(-1), Zero, Int2R(2)}]

\* s o x
Hadamard(s, x) == [i \in 1..Len(x) |-> FMul(s[i], x[i])]

ScaleInit ==
    /\ ruiz \in {RuizNew(k) : k \in 0..MaxSweeps}
    /\ sCall = [op |-> "none"]
    /\ KktIdle /\ ValidateIdle /\ AdmmIdle /\ MathIdle /\ ApiIdle
    /\ TimerIdle /\ GuiIdle

CanScale ==
    \A i \in 1..Len(ruiz.column_scaling) : ruiz.column_scaling[i][2] <= MaxScaleDen

ScaleQpCall ==
    /\ CanScale
    /\ \E n \in 0..MaxVars : \E p \in ScaleQps(n) :
          LET r == ScaleQp(ruiz, p)
          IN  /\ ruiz' = r.scaler
              /\ sCall' = [op |-> "scale_qp", problem |-> p, scaled |-> r.problem]
    /\ UNCHANGED <<kktVars, validateVars, admmVars, mathVars, apiVars,
                 timerVars, guiVars>>

ScaleLpCall ==
    /\ CanScale
    /\ \E n \in 0..MaxVars : \E p \in ScaleLps(n) :
          LET r == ScaleLp(ruiz, p)
          IN  /\ ruiz' = r.scaler
              /\ sCall' = [op |-> "scale_lp", problem |-> p, scaled |-> r.problem]
    /\ UNCHANGED <<kktVars, validateVars, admmVars, mathVars, apiVars,
                 timerVars, guiVars>>

\* unscale_primal called on s o x
UnscalePrimalCall ==
    /\ \E x \in TestVectors(Len(ruiz.column_scaling)) :
          LET scaled == Hadamard(ruiz.column_scaling, x)
          IN  sCall' = [op |-> "unscale_primal", x |-> x, scaled |-> scaled,
                        out |-> UnscalePrimal(ruiz, scaled)]
    /\ UNCHANGED <<ruiz, kktVars, validateVars, admmVars, mathVars, apiVars,
                 timerVars, guiVars>>

ScaleNext == ScaleQpCall \/ ScaleLpCall \/ UnscalePrimalCall

SpecScale == ScaleInit /\ [][ScaleNext]_vars

-----------------------------------------------------------------------------
(* project_box on vectors of equal length, and again on what it returned *)

\* longest vector projected
MaxBox == 1

BoxValues == {NegInf, Int2R(-1), Zero, One, Int2R(2), PosInf, NaN}

MathInit ==
    /\ pb = [op |-> "none"]
    /\ KktIdle /\ ValidateIdle /\ ScaleIdle /\ AdmmIdle /\ ApiIdle
    /\ TimerIdle /\ GuiIdle

ProjectBoxCall ==
    /\ pb.op = "none"
    /\ \E n \in 0..MaxBox : \E x, lower, upper \in [1..n -> BoxValues] :
          pb' = [op |-> "project_box", x |-> x, lower |-> lower, upper |-> upper,
                 out |-> ProjectBox(x, lower, upper), first |-> x, calls |-> 1]
    /\ UNCHANGED <<kktVars, validateVars, scaleVars, admmVars, apiVars,
                 timerVars, guiVars>>

\* project_box on the vector the last call left, with the same bounds
ProjectBoxAgain ==
    /\ pb.op = "project_box"
    /\ pb.calls = 1
    /\ pb' = [pb EXCEPT !.x = pb.out, !.out = ProjectBox(pb.out, pb.lower, pb.upper),
                         !.calls = 2]
    /\ UNCHANGED <<kktVars, validateVars, scaleVars, admmVars, apiVars,
                 timerVars, guiVars>>

MathNext == ProjectBoxCall \/ ProjectBoxAgain

SpecMath == MathInit /\ [][MathNext]_vars

-----------------------------------------------------------------------------
(* AdmmSolver::solve_qp / solve_lp on a scaler: one step per pass of the    *)
(* loop, the timer's clock advancing between passes.                       *)

\* the last reading of the clock
MaxClock == 1
\* a pass of the loop runs while the iterates' denominators are at most MaxDen
MaxDen == 64

Tolerances == {<<1, 1000>>, <<1, 4>>}

AdmmOptions ==
    {[BaseOptions EXCEPT !.tolerance = t, !.admm_adaptive_rho = a] :
        t \in Tolerances, a \in BOOLEAN}
    \cup {[BaseOptions EXCEPT !.max_iterations = k] : k \in {0, 1, MaxIter}}
    \cup {[BaseOptions EXCEPT !.max_time = Some(0), !.admm_adaptive_rho = FALSE]}

\* n x n matrix with every entry stored: diag on the diagonal, off elsewhere
FullCsc(n, diag, off) ==
    [nrows |-> n, ncols |-> n, indptr |-> [i \in 1..(n + 1) |-> (i - 1) * n],
     indices |-> [k \in 1..(n * n) |-> (k - 1) % n],
     data |-> [k \in 1..(n * n) |-> IF (k - 1) \div n = (k - 1) % n THEN diag ELSE off]]

AdmmParts(n) ==
    {[equalities |-> None, inequalities |-> None, bounds |-> None],
     [equalities |-> None, inequalities |-> None,
      bounds |-> Some([lower |-> Repeat(Zero, n), upper |-> Repeat(One, n)])],
     [equalities |-> None,
      inequalities |-> Some([matrix |-> RowCsc(n, One), rhs |-> <<One>>]),
      bounds |-> None],
     [equalities |-> Some([matrix |-> RowCsc(n, One), rhs |-> <<One>>]),
      inequalities |-> None, bounds |-> None]}

\* valid problems
AdmmQps(n) ==
    {QpOf(P, Repeat(Int2R(-1), n), c) :
        P \in {AlternatingDiagonal(n, v, v) : v \in ScaleValues}
               \cup {AlternatingDiagonal(n, One, Zero), FullCsc(n, Int2R(4), One)},
        c \in AdmmParts(n)}
    \cup {QpOf(Diagonal_csc(n, One), Repeat(Int2R(-2), n), c) : c \in AdmmParts(n)}

AdmmLps(n) == {LpOf(Repeat(Int2R(-1), n), c) : c \in AdmmParts(n)}

InvertedBounds(n) == Some([lower |-> Repeat(One, n), upper |-> Repeat(Zero, n)])

\* problems validate rejects: inverted bounds alone, inverted bounds next to a
\* defect validate looks at earlier or later, and a length defect alone
InvalidQps(n) ==
    {QpOf(P, Repeat(One, n), c) :
        P \in {Diagonal_csc(n, One), Diagonal_csc(n + 1, One)},
        c \in {[equalities |-> e, inequalities |-> None, bounds |-> b] :
                 e \in {None, Some([matrix |-> RowCsc(n + 1, One), rhs |-> <<One>>])},
                 b \in {InvertedBounds(n),
                        Some([lower |-> Repeat(One, n), upper |-> Repeat(Zero, n + 1)]),
                        Some([lower |-> Repeat(One, n + 1), upper |-> Repeat(Zero, n + 1)])}}}

InvalidLps(n) ==
    {LpOf(Repeat(One, n), [equalities |-> None, inequalities |-> None, bounds |-> b]) :
        b \in {InvertedBounds(n),
               Some([lower |-> Repeat(One, n + 1), upper |-> Repeat(Zero, n + 1)])}}

WarmStarts(n) ==
    {Some([primal |-> Repeat(One, k), equality_dual |-> <<>>, inequality_dual |-> <<>>]) :
        k \in {n, n + 1}}
    \cup {Some([primal |-> Repeat(One, n), equality_dual |-> <<One>>,
                inequality_dual |-> Repeat(One, n)])}

\* the calls made: every option set on the valid problems, the warm starts and
\* the rejected problems under the base options
QpCalls(n) ==
    {[problem |-> p, options |-> o, warm_start |-> None] :
        p \in AdmmQps(n), o \in AdmmOptions}
    \cup {[problem |-> p, options |-> BaseOptions, warm_start |-> w] :
            p \in AdmmQps(n), w \in WarmStarts(n)}
    \cup {[problem |-> p, options |-> BaseOptions, warm_start |-> None] :
            p \in InvalidQps(n)}

LpCalls(n) ==
    {[problem |-> p, options |-> o, warm_start |-> None] :
        p \in AdmmLps(n) \cup InvalidLps(n), o \in AdmmOptions}

\* a call on an indefinite P with boxes, for which K(1/2) factors and K(1) = 0
IndefiniteCalls(n) ==
    {[problem |-> QpOf(Diagonal_csc(n, Int2R(-1)), Repeat(Int2R(-1), n),
                       [equalities |-> None, inequalities |-> None,
                        bounds |-> Some([lower |-> Repeat(Zero, n),
                                         upper |-> Repeat(One, n)])]),
      options |-> [BaseOptions EXCEPT !.admm_rho = Half], warm_start |-> None]}

\* calls on a problem with an equality row, an inequality row and bounds, for
\* one pass at most
StackedCalls(n) ==
    {[problem |-> QpOf(Diagonal_csc(n, One), Repeat(Int2R(-1), n),
                       [equalities |-> Some([matrix |-> RowCsc(n, One), rhs |-> <<One>>]),
                        inequalities |-> Some([matrix |-> RowCsc(n, One),
                                               rhs |-> <<Int2R(2)>>]),
                        bounds |-> Some([lower |-> Repeat(Zero, n),
                                         upper |-> Repeat(One, n)])]),
      options |-> [BaseOptions EXCEPT !.max_iterations = k], warm_start |-> None] :
        k \in {0, 1}}

\* scalers as constructed, and as an earlier solve on n variables left them
AdmmScalers ==
    {RuizNew(k) : k \in 0..MaxSweeps}
    \cup {[column_scaling |-> Repeat(Half, n), iterations |-> 1] : n \in 1..MaxVars}

AdmmInit ==
    /\ ruiz \in AdmmScalers
    /\ sCall = [op |-> "none"]
    /\ run = NoRun
    /\ result = <<>>
    /\ KktIdle /\ ValidateIdle /\ MathIdle /\ ApiIdle
    /\ TimerIdle /\ GuiIdle

\* the entry of solve_qp on the ProblemQP qp, made for the call c
Enter(op, c, qp) ==
    LET v == QpValidate(qp)
    IN  IF ~IsOk(v)
        THEN /\ run' = [pc |-> "failed", call |-> <<[c EXCEPT !.problem = qp] @@ [op |-> op, given |-> c.problem]>>,
                         loc |-> <<>>, elapsed |-> 0]
             /\ result' = <<[kind |-> "Err", error |-> v]>>
             /\ ruiz' = ruiz
        ELSE \E st \in {SolveQpStart(c.options, c.warm_start, qp, ruiz)} :
                 /\ run' = [pc |-> "loop", call |-> <<[c EXCEPT !.problem = qp] @@ [op |-> op, given |-> c.problem]>>,
                             loc |-> <<st.locals>>, elapsed |-> 0]
                 /\ result' = <<>>
                 /\ ruiz' = st.scaler

SolveQpCall ==
    /\ run.pc = "idle"
    /\ \E n \in 0..MaxVars : \E c \in QpCalls(n) \cup IndefiniteCalls(n) \cup StackedCalls(n) :
          Enter("solve_qp", c, c.problem)
    /\ UNCHANGED <<kktVars, validateVars, sCall, mathVars, apiVars,
                 timerVars, guiVars>>

SolveLpCall ==
    /\ run.pc = "idle"
    /\ \E n \in 0..MaxVars : \E c \in LpCalls(n) : Enter("solve_lp", c, LpAsQp(c.problem))
    /\ UNCHANGED <<kktVars, validateVars, sCall, mathVars, apiVars,
                 timerVars, guiVars>>

Small(loc) ==
    /\ loc.rho[2] <= MaxDen
    /\ \A i \in 1..Len(loc.x) : loc.x[i][2] <= MaxDen
    /\ \A i \in 1..Len(loc.y) : loc.y[i][2] <= MaxDen /\ loc.z[i][2] <= MaxDen

\* one pass of the loop; a pass that leaves the loop returns from solve_qp
Iterate ==
    /\ run.pc = "loop"
    /\ Get(run.loc).iter < Get(run.call).options.max_iterations
    /\ Small(Get(run.loc))
    /\ \E b \in {LoopBody(Get(run.loc), Get(run.call).options, run.elapsed)} :
           IF b.err # "none"
           THEN /\ run' = [run EXCEPT !.pc = "failed", !.loc = <<b.state>>]
                /\ result' = <<[kind |-> "Err",
                                 error |-> [kind |-> b.err, col |-> b.col, mag |-> b.mag]]>>
           ELSE IF b.brk
           THEN /\ run' = [run EXCEPT !.pc = "done", !.loc = <<b.state>>]
                /\ result' = <<[kind |-> "Ok",
                                 solution |-> SolutionOf(b.state, ruiz, run.elapsed)]>>
           ELSE /\ run' = [run EXCEPT !.loc = <<b.state>>]
                /\ result' = result
    /\ UNCHANGED <<kktVars, validateVars, scaleVars, mathVars, apiVars,
                 timerVars, guiVars>>

\* the loop ran max_iterations passes: solve_qp returns
LoopEnd ==
    /\ run.pc = "loop"
    /\ Get(run.loc).iter >= Get(run.call).options.max_iterations
    /\ run' = [run EXCEPT !.pc = "done"]
    /\ result' = <<[kind |-> "Ok", solution |-> SolutionOf(Get(run.loc), ruiz, run.elapsed)]>>
    /\ UNCHANGED <<kktVars, validateVars, scaleVars, mathVars, apiVars,
                 timerVars, guiVars>>

\* time passes while the loop runs
Tick ==
    /\ run.pc = "loop"
    /\ run.elapsed < MaxClock
    /\ run' = [run EXCEPT !.elapsed = @ + 1]
    /\ UNCHANGED <<result, kktVars, validateVars, scaleVars, mathVars, apiVars,
                 timerVars, guiVars>>

AdmmNext == SolveQpCall \/ SolveLpCall \/ Iterate \/ LoopEnd \/ Tick

SpecAdmm == AdmmInit /\ [][AdmmNext]_vars

-----------------------------------------------------------------------------
(* The api Solver: builder calls and solves, each solve one step, on the one  *)
(* scaler the Solver owns.                                                   *)

\* a solve scales while the stored scaling's denominators are at most MaxApiDen
MaxApiDen == 32

Boxes(n) ==
    [equalities |-> None, inequalities |-> None,
     bounds |-> Some([lower |-> Repeat(Zero, n), upper |-> Repeat(One, n)])]

ApiQps(n) ==
    {QpOf(Diagonal_csc(n, v), Repeat(Int2R(-1), n), c) :
        v \in {One, Int2R(4)},
        c \in {[equalities |-> None, inequalities |-> None, bounds |-> None], Boxes(n)}}
    \cup {QpOf(Diagonal_csc(n, One), Repeat(One, n),
               [equalities |-> None, inequalities |-> None, bounds |-> InvertedBounds(n)])}

ApiLps(n) ==
    {LpOf(Repeat(Int2R(-1), n), c) :
        c \in {Boxes(n),
               [equalities |-> None,
                inequalities |-> Some([matrix |-> RowCsc(n, Int2R(4)), rhs |-> <<One>>]),
                bounds |-> None],
               [equalities |-> None, inequalities |-> None, bounds |-> InvertedBounds(n)]}}

ApiOptions == {[BaseOptions EXCEPT !.max_iterations = k] : k \in {0, 1, MaxIter}}

\* every stored entry of the matrices is 0 or 1
UnitEntries(matrices) ==
    \A k \in 1..Len(matrices) : \A i \in 1..Len(matrices[k].data) :
        matrices[k].data[i] \in {Zero, One}

\* the solves followed: any number of passes on a problem with unit entries and
\* a scaling of ones, one pass on any problem and a scaling of ones, no pass
\* on a scaling an earlier solve left, and constraint rows only on a scaling
\* of ones
ApiCanSolve(n, matrices, rows) ==
    \/ api.method # "Admm"
    \/ LET s0 == ScalingAtStart(api.scaler, n)
       IN  /\ \A i \in 1..n : s0[i][2] <= MaxApiDen
           /\ rows => \A i \in 1..n : s0[i] = One
           /\ \/ api.options.max_iterations = 0
              \/ /\ \A i \in 1..n : s0[i] = One
                 /\ api.options.max_iterations <= 1 \/ UnitEntries(matrices)

\* box QPs whose cost pushes every variable a little below its lower bound 0
LowCostQps(n) ==
    {QpOf(Diagonal_csc(n, Int2R(4)), Repeat(<<1, 8>>, n), Boxes(n))}

\* the solves of a LowCostQps problem followed: on a scaling of ones, from the
\* zero start
ApiCanSolveLowCost(n) ==
    \/ api.method # "Admm"
    \/ /\ \A i \in 1..n : ScalingAtStart(api.scaler, n)[i] = One
       /\ api.warm_start = None

ApiInit ==
    /\ api = SolverNew
    /\ apiCall = NoCall
    /\ KktIdle /\ ValidateIdle /\ ScaleIdle /\ AdmmIdle /\ MathIdle
    /\ TimerIdle /\ GuiIdle

\* Solver::method
ApiMethod ==
    /\ \E method \in {"Admm", "Ipm"} :
          /\ method # api.method
          /\ api' = [api EXCEPT !.method = method]
    /\ apiCall' = [op |-> "method"]
    /\ UNCHANGED <<kktVars, validateVars, scaleVars, admmVars, mathVars,
                 timerVars, guiVars>>

\* Solver::options
ApiOptionsCall ==
    /\ \E options \in ApiOptions :
          /\ options # api.options
          /\ api' = [api EXCEPT !.options = options]
    /\ apiCall' = [op |-> "options"]
    /\ UNCHANGED <<kktVars, validateVars, scaleVars, admmVars, mathVars,
                 timerVars, guiVars>>

\* Solver::warm_start
ApiWarmStart ==
    /\ \E n \in 1..MaxVars : \E warm \in WarmStarts(n) :
          /\ warm # api.warm_start
          /\ Len(Get(warm).primal) = n
          /\ api' = [api EXCEPT !.warm_start = warm]
    /\ apiCall' = [op |-> "warm_start"]
    /\ UNCHANGED <<kktVars, validateVars, scaleVars, admmVars, mathVars,
                 timerVars, guiVars>>

\* Solver::solve_qp
ApiSolveQp ==
    /\ \E n \in 0..MaxVars : \E problem \in ApiQps(n) \cup LowCostQps(n) :
       \E elapsed \in 0..MaxClock :
          /\ IF problem \in ApiQps(n) THEN ApiCanSolve(n, <<problem.quadratic>>, FALSE)
             ELSE ApiCanSolveLowCost(n)
          /\ \E r \in {SolverSolveQp(api, problem, elapsed)} :
                /\ api' = r.solver
                /\ apiCall' = [op |-> "solve_qp", problem |-> problem, result |-> r.result]
    /\ UNCHANGED <<kktVars, validateVars, scaleVars, admmVars, mathVars,
                 timerVars, guiVars>>

\* Solver::solve_lp
ApiSolveLp ==
    /\ \E n \in 0..MaxVars : \E problem \in ApiLps(n) : \E elapsed \in 0..MaxClock :
          /\ ApiCanSolve(n, IF IsSome(problem.inequalities)
                            THEN <<Get(problem.inequalities).matrix>> ELSE <<>>,
                         IsSome(problem.inequalities))
          /\ \E r \in {SolverSolveLp(api, problem, elapsed)} :
                /\ api' = r.solver
                /\ apiCall' = [op |-> "solve_lp", problem |-> problem, result |-> r.result]
    /\ UNCHANGED <<kktVars, validateVars, scaleVars, admmVars, mathVars,
                 timerVars, guiVars>>

ApiNext == ApiMethod \/ ApiOptionsCall \/ ApiWarmStart \/ ApiSolveQp \/ ApiSolveLp

SpecApi == ApiInit /\ [][ApiNext]_vars

-----------------------------------------------------------------------------
(* A Timer under stop / resume / elapsed calls while the clock advances *)

\* the last reading of the clock
MaxNow == 5

TimerInit ==
    /\ clock = 0
    /\ timer = TimerStart(0)
    /\ tCall = NoCall
    /\ KktIdle /\ ValidateIdle /\ ScaleIdle /\ AdmmIdle /\ MathIdle /\ ApiIdle /\ GuiIdle

\* the monotonic clock advances
ClockTick ==
    /\ clock < MaxNow
    /\ clock' = clock + 1
    /\ UNCHANGED <<timer, tCall, kktVars, validateVars, scaleVars, admmVars, mathVars,
                   apiVars, guiVars>>

\* Timer::stop
TimerStopCall ==
    /\ timer' = TimerStop(timer, clock)
    /\ tCall' = [op |-> "stop", was |-> timer.running, out |-> 0]
    /\ UNCHANGED <<clock, kktVars, validateVars, scaleVars, admmVars, mathVars, apiVars,
                   guiVars>>

\* Timer::resume
TimerResumeCall ==
    /\ timer' = TimerResume(timer, clock)
    /\ tCall' = [op |-> "resume", was |-> timer.running, out |-> 0]
    /\ UNCHANGED <<clock, kktVars, validateVars, scaleVars, admmVars, mathVars, apiVars,
                   guiVars>>

\* Timer::elapsed
TimerElapsedCall ==
    /\ tCall' = [op |-> "elapsed", was |-> timer.running, out |-> TimerElapsed(timer, clock)]
    /\ UNCHANGED <<clock, timer, kktVars, validateVars, scaleVars, admmVars, mathVars,
                   apiVars, guiVars>>

TimerNext == ClockTick \/ TimerStopCall \/ TimerResumeCall \/ TimerElapsedCall

SpecTimer == TimerInit /\ [][TimerNext]_vars

-----------------------------------------------------------------------------
(* The GUI: the user's clicks and edits, and the worker threads start_solve  *)
(* spawns. A worker runs solve_problem on its own and then stores its result *)
(* in the shared task state under the mutex; a worker whose solve panics     *)
(* unwinds without storing anything.                                         *)

\* worker threads followed at a time
MaxWorkers == 2

\* the file write_example_problem writes
ExamplePath == "ejemplo_qp.json"

NoBlocks == [equalities |-> None, inequalities |-> None, bounds |-> None]

\* SAMPLE_QP_JSON, its quadratic diag(2, 2) taken as diag(1, 1) so that the
\* square roots of the Ruiz sweeps are exact
SampleQp ==
    [quadratic |-> Diagonal_csc(2, One), linear |-> <<Int2R(-2), Int2R(-5)>>,
     inequalities |-> Some([matrix |-> Diagonal_csc(2, One), rhs |-> <<One, One>>]),
     equalities |-> None,
     bounds |-> Some([lower |-> <<Zero, Zero>>, upper |-> <<Int2R(10), Int2R(10)>>])]

\* the files on disk, by path: their extension and what read_json_problem
\* makes of their text (None when it does not parse as a problem)
GuiFiles ==
    [path \in {"good.json", "lp.json", "rejected.json", "bad.json", "text.json",
               "model.mps", ExamplePath} |->
        CASE path = "good.json" ->
                [ext |-> "json",
                 content |-> Some([kind |-> "qp",
                                   problem |-> QpOf(Diagonal_csc(1, One), <<Int2R(-1)>>,
                                                    NoBlocks)])]
          [] path = "lp.json" ->
                [ext |-> "json",
                 content |-> Some([kind |-> "lp",
                                   problem |-> LpOf(<<Int2R(-1)>>, Boxes(1))])]
          [] path = "rejected.json" ->
                [ext |-> "json",
                 content |-> Some([kind |-> "qp",
                                   problem |-> QpOf(Diagonal_csc(1, One), <<One>>,
                                                    [NoBlocks EXCEPT
                                                        !.bounds = InvertedBounds(1)])])]
          [] path = "bad.json" ->
                [ext |-> "json",
                 content |-> Some([kind |-> "qp",
                                   problem |-> QpOf([Diagonal_csc(1, One) EXCEPT
                                                        !.indices = <<1>>],
                                                    <<One>>, NoBlocks)])]
          [] path = "text.json" -> [ext |-> "json", content |-> None]
          [] path = "model.mps" -> [ext |-> "mps", content |-> None]
          [] path = ExamplePath ->
                [ext |-> "json", content |-> Some([kind |-> "qp", problem |-> SampleQp])]]

\* the paths that exist
GuiExisting == DOMAIN GuiFiles

\* what the user has in the option fields at a click of "Resolver problema"
TypedDefault ==
    [tolerance_input |-> "", max_iters_input |-> "", time_limit_input |-> "",
     write_solution |-> FALSE, method |-> "Admm"]

GuiTyped ==
    {TypedDefault,
     [TypedDefault EXCEPT !.tolerance_input = "abc"],
     [TypedDefault EXCEPT !.max_iters_input = "x"],
     [TypedDefault EXCEPT !.time_limit_input = "x"],
     [TypedDefault EXCEPT !.tolerance_input = "0.25", !.write_solution = TRUE],
     [TypedDefault EXCEPT !.method = "Ipm"]}

\* CvxrsApp::on_output_selected
OnOutputSelected(app, path) == [app EXCEPT !.output_input = path, !.output_path = Some(path)]

GuiInit ==
    /\ task = TaskIdle
    /\ workers = {}
    /\ gui = AppNew
    /\ KktIdle /\ ValidateIdle /\ ScaleIdle /\ AdmmIdle /\ MathIdle /\ ApiIdle
    /\ TimerIdle

\* browse_problem with a file picked, or a file dropped on the window
GuiBrowseProblem ==
    /\ \E path \in GuiExisting :
          gui' = SetBanner(OnProblemSelected(gui, path, GuiExisting), "Success")
    /\ UNCHANGED <<task, workers>>
    /\ UNCHANGED <<kktVars, validateVars, scaleVars, admmVars, mathVars, apiVars, timerVars>>

\* the problem path edited by hand
GuiEditProblem ==
    /\ \E input \in GuiExisting \cup {"", "missing.json"} :
          /\ input # gui.problem_input
          /\ gui' = [gui EXCEPT !.problem_input = input,
                                !.problem_path = PathFromInput(input, GuiExisting)]
    /\ UNCHANGED <<task, workers>>
    /\ UNCHANGED <<kktVars, validateVars, scaleVars, admmVars, mathVars, apiVars, timerVars>>

\* browse_output with a file picked
GuiBrowseOutput ==
    /\ gui' = SetBanner(OnOutputSelected(gui, "out.json"), "Success")
    /\ UNCHANGED <<task, workers>>
    /\ UNCHANGED <<kktVars, validateVars, scaleVars, admmVars, mathVars, apiVars, timerVars>>

\* a click on "Usar ejemplo guiado", which is enabled whatever the task state
GuiLoadExample ==
    /\ \E wrote \in BOOLEAN :
          \E r \in {LoadExampleProblem(gui, task, wrote, ExamplePath, GuiExisting)} :
              gui' = r.app /\ task' = r.state
    /\ UNCHANGED workers
    /\ UNCHANGED <<kktVars, validateVars, scaleVars, admmVars, mathVars, apiVars, timerVars>>

\* a call of start_solve; the worker it spawns is in flight from here on
GuiStartSolve ==
    /\ \E typed \in GuiTyped :
          \E r \in {StartSolve(gui, task, typed, GuiExisting)} :
              /\ gui' = r.app
              /\ task' = r.state
              /\ IF IsSome(r.spawn)
                 THEN /\ Cardinality(workers) < MaxWorkers
                      /\ \E id \in 1..MaxWorkers :
                            /\ \A w \in workers : w.id # id
                            /\ \A other \in 1..(id - 1) : \E w \in workers : w.id = other
                            /\ workers' = workers \cup {Get(r.spawn) @@ [id |-> id]}
                 ELSE workers' = workers
    /\ UNCHANGED <<kktVars, validateVars, scaleVars, admmVars, mathVars, apiVars, timerVars>>

\* the argument lists a worker can be spawned with
WorkerArgs ==
    [method : {"Admm", "Ipm"}, problem_path : GuiExisting,
     tolerance : {None, Some(<<1, 4>>)}, max_iters : {None}, time_limit : {None},
     output_path : {None, Some("out.json")}]

\* what solve_problem makes of each argument list, by whether write_solution
\* succeeds
SolveOutcomes ==
    {<<a, wrote, SolveProblem(a.method, GuiFiles[a.problem_path], a.tolerance, a.max_iters,
                              a.time_limit, a.output_path, wrote)>> :
        a \in WorkerArgs, wrote \in BOOLEAN}

\* what solve_problem makes of the arguments of the worker w
WorkerOutcome(w, wrote) ==
    LET a == [k \in DOMAIN w \ {"id"} |-> w[k]]
    IN  (CHOOSE t \in SolveOutcomes : t[1] = a /\ t[2] = wrote)[3]

\* a worker's solve_problem returned and the worker stored its result
WorkerDone ==
    /\ \E w \in workers : \E wrote \in BOOLEAN :
          \E outcome \in {WorkerOutcome(w, wrote)} :
              /\ outcome # "Panic"
              /\ task' = WorkerStore(w, outcome)
              /\ workers' = workers \ {w}
    /\ UNCHANGED gui
    /\ UNCHANGED <<kktVars, validateVars, scaleVars, admmVars, mathVars, apiVars, timerVars>>

\* a worker's solve_problem panicked: the thread is gone, nothing is stored
WorkerPanic ==
    /\ \E w \in workers :
          /\ WorkerOutcome(w, TRUE) = "Panic"
          /\ workers' = workers \ {w}
    /\ UNCHANGED <<task, gui>>
    /\ UNCHANGED <<kktVars, validateVars, scaleVars, admmVars, mathVars, apiVars, timerVars>>

GuiNext ==
    \/ GuiBrowseProblem \/ GuiEditProblem \/ GuiBrowseOutput \/ GuiLoadExample
    \/ GuiStartSolve \/ WorkerDone \/ WorkerPanic

SpecGui == GuiInit /\ [][GuiNext]_vars

\* a worker thread that can take its next step is scheduled; the user is not
\* bound to click anything
SpecGuiFair == SpecGui /\ WF_vars(WorkerDone) /\ WF_vars(WorkerPanic)

-----------------------------------------------------------------------------
(* Properties of the dense LDL^T solver *)

\* entry (i, j) of L * D * L^T for the factors a solver holds
LDLt(s, i, j) ==
    SumTo([k \in 0..(s.dimension - 1) |->
              FMul(FMul(LAt(s.l, s.dimension, i, k), At(s.d, k)), LAt(s.l, s.dimension, j, k))],
          s.dimension)

UnitLower(s) ==
    \A i, j \in 0..(s.dimension - 1) :
        /\ i = j => LAt(s.l, s.dimension, i, j) = One
        /\ i < j => LAt(s.l, s.dimension, i, j) = Zero

\* entry i of matrix * v
MatVecAt(matrix, v, i) ==
    SumTo([k \in 0..(matrix.dimension - 1) |-> FMul(Entry(matrix, i, k), At(v, k))],
          matrix.dimension)

\* C9: after factor(M) succeeds on a symmetric M the stored factors satisfy
\* L * D * L^T = M with L unit lower-triangular and D diagonal, and a following
\* solve(rhs) succeeds and leaves in rhs the x with M * x = rhs.
C9_LdltCorrect ==
    (kktM # <<>> /\ IsSymmetric(kktM)) =>
        /\ kkt.dimension = kktM.dimension
        /\ Len(kkt.d) = kkt.dimension
        /\ UnitLower(kkt)
        /\ \A i, j \in 0..(kkt.dimension - 1) : LDLt(kkt, i, j) = Entry(kktM, i, j)
        /\ (kktCall.op = "solve" /\ Len(kktCall.rhs) = kkt.dimension) =>
              /\ kktCall.err = "none"
              /\ Len(kktCall.out) = kkt.dimension
              /\ \A i \in 0..(kkt.dimension - 1) :
                    MatVecAt(kktM, kktCall.out, i) = At(kktCall.rhs, i)

C9_Witness ==
    /\ kktM # <<>>
    /\ IsSymmetric(kktM)
    /\ kktM.dimension = 2
    /\ Entry(kktM, 1, 0) # Zero
    /\ At(kkt.d, 0) # One
    /\ kktCall.op = "solve"
    /\ kktCall.err = "none"
    /\ kktCall.rhs = <<Zero, One>>

\* C10: factor on a never-analyzed solver analyzes with the matrix's dimension
\* and then factors; factor with a dimension other than the analyzed one is an
\* error that changes nothing; a factor call that gets past the dimension check
\* starts from L = identity (no entry of an earlier factorization survives in
\* a column it did not recompute); solve with an rhs of another length is an
\* error that leaves rhs alone.
C10_Lifecycle ==
    [][ /\ (kktCall'.op = "factor" /\ ~kkt.analyzed) =>
              /\ kkt'.analyzed
              /\ kkt'.dimension = kktCall'.dim
              /\ Len(kkt'.d) = kkt'.dimension
              /\ kktCall'.err \in {"none", "pivot"}
        /\ (kktCall'.op = "factor" /\ kkt.analyzed
                /\ kktCall'.dim # kkt.dimension) =>
              /\ kktCall'.err = "dimension"
              /\ kkt' = kkt
        /\ (kktCall'.op = "factor" /\ kkt.analyzed
                /\ kktCall'.dim = kkt.dimension) =>
              kktCall'.err \in {"none", "pivot"}
        /\ (kktCall'.op = "factor" /\ kktCall'.err \in {"none", "pivot"}) =>
              /\ UnitLower(kkt')
              /\ \A i, j \in 0..(kkt'.dimension - 1) :
                    (j >= kktCall'.col /\ i # j) => LAt(kkt'.l, kkt'.dimension, i, j) = Zero
              /\ kkt'.last_factor = kkt.last_factor + (IF kktCall'.err = "none" THEN 1 ELSE 0)
        /\ (kktCall'.op = "solve" /\ Len(kktCall'.rhs) # kkt.dimension) =>
              /\ kktCall'.err = "length"
              /\ kktCall'.out = kktCall'.rhs
        /\ (kktCall'.op = "solve" /\ Len(kktCall'.rhs) = kkt.dimension) =>
              kktCall'.err \in {"none", "singular"}
      ]_vars

\* a failed factor call on a solver that holds an earlier factorization with a
\* nonzero entry below the diagonal
C10_Witness ==
    /\ kktCall.op = "factor"
    /\ kktCall.err = "pivot"
    /\ kktCall.col = 0
    /\ kkt.dimension = 2
    /\ kkt.last_factor = 1
    /\ At(kkt.d, 1) # Zero

-----------------------------------------------------------------------------
(* Properties of validation *)

\* the CSC invariant of the data model: pointer[0] = 0, pointer nondecreasing,
\* pointer[cols] = |indices| = |values|, every row index < rows
WellFormedCsc(m) ==
    /\ Len(m.indptr) = m.ncols + 1
    /\ At(m.indptr, 0) = 0
    /\ \A i \in 0..(m.ncols - 1) : At(m.indptr, i) <= At(m.indptr, i + 1)
    /\ At(m.indptr, m.ncols) = Len(m.indices)
    /\ Len(m.indices) = Len(m.data)
    /\ \A k \in 1..Len(m.indices) : m.indices[k] < m.nrows

\* the matrices of a QP or LP (an LP has no quadratic field)
BlockMatrices(p) ==
    (IF IsSome(p.equalities) THEN {Get(p.equalities).matrix} ELSE {})
    \cup (IF IsSome(p.inequalities) THEN {Get(p.inequalities).matrix} ELSE {})

MatricesOf(op, p) ==
    IF op = "qp" THEN {p.quadratic} \cup BlockMatrices(p) ELSE BlockMatrices(p)

\* C5: every problem validate accepts has only well-formed CSC matrices
C5_AcceptedIsWellFormed ==
    (vOut # <<>> /\ vIn[1].op \in {"qp", "lp"} /\ IsOk(vOut[1])) =>
        \A m \in MatricesOf(vIn[1].op, vIn[1].problem) : WellFormedCsc(m)

\* some structural length of the problem disagrees with another
CscLengthsDisagree(m) ==
    Len(m.indptr) # m.ncols + 1 \/ Len(m.indices) # Len(m.data)

BlockLengthsDisagree(c, n) ==
    CscLengthsDisagree(c.matrix) \/ c.matrix.ncols # n \/ c.matrix.nrows # Len(c.rhs)

BoundsLengthsDisagree(p, n) ==
    IsSome(p.bounds) /\ (Len(Get(p.bounds).lower) # n \/ Len(Get(p.bounds).upper) # n)

QuadraticLengthsDisagree(op, p, n) ==
    op = "qp" /\ (CscLengthsDisagree(p.quadratic) \/ p.quadratic.nrows # n
                      \/ p.quadratic.ncols # n)

LengthsDisagree(op, p) ==
    LET n == IF op = "qp" THEN QpNvars(p) ELSE LpNvars(p)
    IN  \/ QuadraticLengthsDisagree(op, p, n)
        \/ BoundsLengthsDisagree(p, n)
        \/ (IsSome(p.equalities) /\ BlockLengthsDisagree(Get(p.equalities), n))
        \/ (IsSome(p.inequalities) /\ BlockLengthsDisagree(Get(p.inequalities), n))

\* some lower bound exceeds the upper bound at the same index
BoundsInverted(p) ==
    /\ IsSome(p.bounds)
    /\ \E i \in 1..Len(Get(p.bounds).lower) :
          i <= Len(Get(p.bounds).upper)
          /\ FGt(Get(p.bounds).lower[i], Get(p.bounds).upper[i])

BoundsOrdered(p) ==
    IsSome(p.bounds) =>
        \A i \in 1..Len(Get(p.bounds).lower) :
            i <= Len(Get(p.bounds).upper) =>
                FLe(Get(p.bounds).lower[i], Get(p.bounds).upper[i])

\* the validation call made, as <<op, problem, error kind>>; a build call
\* with both parts set counts as the validate call it makes
ValidateCalls ==
    IF vOut = <<>> THEN {}
    ELSE IF vIn[1].op \in {"qp", "lp"} THEN {<<vIn[1].op, vIn[1].problem, vOut[1].kind>>}
    ELSE IF vIn[1].op = "qp_build" /\ IsSome(vIn[1].problem.p) /\ IsSome(vIn[1].problem.q)
         THEN {<<"qp", [quadratic |-> Get(vIn[1].problem.p), linear |-> Get(vIn[1].problem.q),
                        inequalities |-> vIn[1].problem.inequality,
                        equalities |-> vIn[1].problem.equality,
                        bounds |-> vIn[1].problem.bounds], vOut[1].cause>>}
    ELSE IF vIn[1].op = "lp_build" /\ IsSome(vIn[1].problem.cost)
         THEN {<<"lp", [cost |-> Get(vIn[1].problem.cost),
                        inequalities |-> vIn[1].problem.inequality,
                        equalities |-> vIn[1].problem.equality,
                        bounds |-> vIn[1].problem.bounds], vOut[1].cause>>}
    ELSE {}

\* C7 as stated: validation fails with DimensionMismatch whenever structural
\* lengths disagree, and succeeds when they agree and lower <= upper
C7_Original ==
    \A c \in ValidateCalls :
        /\ LengthsDisagree(c[1], c[2]) => c[3] = "DimensionMismatch"
        /\ (~LengthsDisagree(c[1], c[2]) /\ BoundsOrdered(c[2])) => c[3] = "Ok"

\* C7 amended: validation fails whenever structural lengths disagree; the
\* error is DimensionMismatch, except that bounds of the right lengths with
\* some lower > upper are reported first, as InvalidStructure, when only a
\* constraint block (checked after the bounds) has the disagreeing lengths;
\* validation succeeds when all lengths agree and lower <= upper.
C7_Amended ==
    \A c \in ValidateCalls :
        LET n == IF c[1] = "qp" THEN QpNvars(c[2]) ELSE LpNvars(c[2])
            boundsFirst == /\ ~QuadraticLengthsDisagree(c[1], c[2], n)
                           /\ ~BoundsLengthsDisagree(c[2], n)
                           /\ BoundsInverted(c[2])
        IN  /\ LengthsDisagree(c[1], c[2]) =>
                  c[3] = (IF boundsFirst THEN "InvalidStructure" ELSE "DimensionMismatch")
            /\ (~LengthsDisagree(c[1], c[2]) /\ BoundsOrdered(c[2])) => c[3] = "Ok"

\* a validate call on a problem whose equality block has more rows than rhs entries
C7_Witness ==
    /\ vOut # <<>>
    /\ vIn[1].op = "qp"
    /\ IsSome(vIn[1].problem.equalities)
    /\ ~CscLengthsDisagree(Get(vIn[1].problem.equalities).matrix)
    /\ Get(vIn[1].problem.equalities).matrix.nrows # Len(Get(vIn[1].problem.equalities).rhs)
    /\ vOut[1] = DimensionMismatch("constraint rows")

-----------------------------------------------------------------------------
(* Properties of the scaler *)

\* row `row` of matrix * x for a CSC matrix, from entry idx of column col on
RECURSIVE CscRowDot(_, _, _, _, _)
CscRowDot(matrix, x, row, col, idx) ==
    IF col >= matrix.ncols THEN Zero
    ELSE IF idx >= At(matrix.indptr, col + 1)
         THEN CscRowDot(matrix, x, row, col + 1, At(matrix.indptr, col + 1))
    ELSE FAdd(IF At(matrix.indices, idx) = row
              THEN FMul(At(matrix.data, idx), At(x, col)) ELSE Zero,
              CscRowDot(matrix, x, row, col, idx + 1))

CscTimes(matrix, x) ==
    [r \in 1..matrix.nrows |-> CscRowDot(matrix, x, r - 1, 0, At(matrix.indptr, 0))]

\* (1/2) x' P x + q' x, and c' x
QpObjective(problem, x) ==
    FAdd(Dot(problem.linear, x), FMul(Half, Dot(x, CscTimes(problem.quadratic, x))))
LpObjective(problem, x) == Dot(problem.cost, x)

\* A x = b, G x <= h and l <= x <= u
Feasible(problem, x) ==
    /\ IsSome(problem.equalities) =>
          LET e == Get(problem.equalities)
          IN  \A r \in 1..e.matrix.nrows : CscTimes(e.matrix, x)[r] = e.rhs[r]
    /\ IsSome(problem.inequalities) =>
          LET g == Get(problem.inequalities)
          IN  \A r \in 1..g.matrix.nrows : FLe(CscTimes(g.matrix, x)[r], g.rhs[r])
    /\ IsSome(problem.bounds) =>
          LET b == Get(problem.bounds)
          IN  \A i \in 1..Len(x) : FLe(b.lower[i], x[i]) /\ FLe(x[i], b.upper[i])

\* C3: after scale_qp / scale_lp the rewritten problem is the caller's problem in
\* the variables xt = s o x: the two objectives agree at x and s o x, and x is
\* feasible for the caller's problem exactly when s o x is for the rewritten one.
C3_ScaledEquivalent ==
    sCall.op \in {"scale_qp", "scale_lp"} =>
        \A x \in TestVectors(Len(ruiz.column_scaling)) :
            LET xt == Hadamard(ruiz.column_scaling, x)
            IN  /\ IF sCall.op = "scale_qp"
                   THEN QpObjective(sCall.scaled, xt) = QpObjective(sCall.problem, x)
                   ELSE LpObjective(sCall.scaled, xt) = LpObjective(sCall.problem, x)
                /\ Feasible(sCall.scaled, xt) <=> Feasible(sCall.problem, x)

\* the objective part alone, which the quadratic's two-sided scaling preserves
ScaledObjectiveAgrees ==
    sCall.op = "scale_qp" =>
        \A x \in TestVectors(Len(ruiz.column_scaling)) :
            QpObjective(sCall.scaled, Hadamard(ruiz.column_scaling, x))
                = QpObjective(sCall.problem, x)

\* C4: unscale_primal(s o x) = x for every x of the scaler's length
C4_UnscaleInverts ==
    sCall.op = "unscale_primal" => sCall.out = sCall.x

\* a round trip through a scaling that is not the identity, on a nonzero x
C4_Witness ==
    /\ sCall.op = "unscale_primal"
    /\ \E i \in 1..Len(sCall.x) :
          ruiz.column_scaling[i] # One /\ sCall.x[i] # Zero /\ sCall.scaled[i] # sCall.x[i]
    /\ sCall.out = sCall.x

-----------------------------------------------------------------------------
(* Properties of solve_qp / solve_lp *)

HasLocals == Len(run.loc) = 1
Loc == Get(run.loc)
Call == Get(run.call)
Returned == run.pc = "done" /\ Len(result) = 1 /\ Get(result).kind = "Ok"
Failed == run.pc = "failed" /\ Len(result) = 1 /\ Get(result).kind = "Err"

\* the stacked product A x of the scaled problem, from its CSC blocks
StackedTimes(problem, x) ==
    (IF IsSome(problem.equalities) THEN CscTimes(Get(problem.equalities).matrix, x) ELSE <<>>)
    \o (IF IsSome(problem.inequalities) THEN CscTimes(Get(problem.inequalities).matrix, x)
        ELSE <<>>)
    \o (IF IsSome(problem.bounds) THEN x ELSE <<>>)

\* an iteration record within the tolerance on all three measures
Meets(record, tol) ==
    /\ FLe(record.primal_residual, tol)
    /\ FLe(record.dual_residual, tol)
    /\ FLe(record.relative_gap, tol)

\* C1: when the solve ends Optimal its last record has primal residual
\* ||A x - z||_inf, dual residual and relative gap all at most the tolerance and
\* z lies in [l, u]; and the loop stops with Optimal at the first record that
\* meets the tolerance, so no record other than an Optimal solve's last meets it.
C1_OptimalMeetsTolerance ==
    HasLocals =>
        LET h == Loc.stats.history
            tol == Call.options.tolerance
            ax == StackedTimes(Loc.problem, Loc.x)
        IN  /\ \A k \in 1..Len(h) :
                  Meets(h[k], tol) => k = Len(h) /\ Loc.status = "Optimal"
            /\ Loc.status = "Optimal" =>
                  /\ Len(h) >= 1
                  /\ Meets(h[Len(h)], tol)
                  /\ h[Len(h)].primal_residual
                        = NormInf([i \in 1..Loc.ws.m |-> FSub(ax[i], Loc.z[i])])
                  /\ \A i \in 1..Loc.ws.m :
                        FLe(Loc.ws.lower[i], Loc.z[i]) /\ FLe(Loc.z[i], Loc.ws.upper[i])
            /\ Returned => Get(result).solution.status = Loc.status

\* an Optimal solve with constraint rows that stopped after its first pass
C1_Witness ==
    /\ Returned
    /\ Get(result).solution.status = "Optimal"
    /\ Len(Loc.stats.history) >= 2
    /\ Loc.ws.m >= 1
    /\ Meets(Loc.stats.history[Len(Loc.stats.history)], Call.options.tolerance)

\* the passes after which the adaptive rule changed rho
RhoChanges ==
    LET h == Loc.stats.history
    IN  Cardinality({k \in 1..Len(h) :
                        (IF k < Len(h) THEN h[k + 1].rho ELSE Loc.rho) # h[k].rho})

\* C2: a solve in which the adaptive rule changed rho at k iterations reports
\* stats.factorizations <= k + 1.
C2_FactorizationsBounded ==
    Returned => Get(result).solution.stats.factorizations <= RhoChanges + 1

\* the factorizations the dense solver performed are within that bound
SolverFactorizationsBounded ==
    HasLocals => Loc.lin.solver.last_factor <= RhoChanges + 1

\* lower[i] > upper[i] at some index the two vectors share
Inverted(problem) ==
    /\ IsSome(problem.bounds)
    /\ \E i \in 1..Min(Len(Get(problem.bounds).lower), Len(Get(problem.bounds).upper)) :
          FGt(Get(problem.bounds).lower[i], Get(problem.bounds).upper[i])

\* a defect in the sizes validate compares before it compares lower with upper
SizeDefectFirst(problem) ==
    \/ ~IsOk(CscValidate(problem.quadratic))
    \/ problem.quadratic.ncols # QpNvars(problem)
    \/ problem.quadratic.nrows # QpNvars(problem)
    \/ Len(Get(problem.bounds).lower) # QpNvars(problem)
    \/ Len(Get(problem.bounds).lower) # Len(Get(problem.bounds).upper)

\* a step that enters solve_qp / solve_lp with inverted bounds
EntersInverted == run.pc = "idle" /\ run'.pc # "idle" /\ Inverted(Get(run'.call).problem)

\* the call is rejected before any solving: no locals, no workspace, no
\* factorization, no pass of the loop, and the scaler as it was
RejectedUntouched ==
    /\ run'.pc = "failed"
    /\ run'.loc = <<>>
    /\ Len(result') = 1 /\ Get(result').kind = "Err"
    /\ ruiz' = ruiz

\* C6 as stated: a problem whose bounds have lower[i] > upper[i] for some i is
\* rejected by validation with InvalidStructure before any solving, the scaler
\* unchanged.
C6_Original ==
    [][EntersInverted =>
          RejectedUntouched /\ Get(result').error.kind = "InvalidStructure"]_vars

\* C6: a problem whose bounds have lower[i] > upper[i] for some i is rejected by
\* validation before any solving, the scaler unchanged: with InvalidStructure
\* when the quadratic matrix and the lengths of the bound vectors pass the
\* checks validate makes first, with DimensionMismatch when they do not.
C6_Amended ==
    [][EntersInverted =>
          /\ RejectedUntouched
          /\ Get(result').error.kind =
                IF SizeDefectFirst(Get(run'.call).problem) THEN "DimensionMismatch"
                ELSE "InvalidStructure"]_vars

\* inverted bounds rejected with InvalidStructure on a scaler an earlier solve used
C6_Witness ==
    /\ Failed
    /\ run.loc = <<>>
    /\ Inverted(Call.problem)
    /\ Get(result).error.kind = "InvalidStructure"
    /\ Len(ruiz.column_scaling) >= 1
    /\ \E i \in 1..Len(ruiz.column_scaling) : ruiz.column_scaling[i] # One

\* the pivot of column j recomputed from K and the stored factors
PivotAt(K, solver, j) ==
    FSub(Entry(K, j, j),
         SumTo([k \in 0..(j - 1) |->
                   FMul(FMul(LAt(solver.l, solver.dimension, j, k),
                             LAt(solver.l, solver.dimension, j, k)), At(solver.d, k))], j))

\* the matrix LinearSystem last handed to the dense solver
LastK == [dimension |-> Loc.lin.n, data |-> Loc.lin.buffer]

\* factor on K fails at the first column whose pivot is within 1e-12 of zero and
\* reports that column and magnitude; it never succeeds with such a pivot
FactorStopsAtFirstSmallPivot ==
    HasLocals =>
        LET solver == Loc.lin.solver
        IN  /\ (Failed /\ Get(result).error.kind = "pivot") =>
                  LET e == Get(result).error
                  IN  /\ e.col \in 0..(solver.dimension - 1)
                      /\ \A k \in 0..(e.col - 1) : ~LeEps(FAbs(At(solver.d, k)))
                      /\ e.mag = FAbs(PivotAt(LastK, solver, e.col))
                      /\ LeEps(e.mag)
            /\ (IsSome(Loc.lin.current_rho) /\ ~Failed) =>
                  \A k \in 0..(solver.dimension - 1) :
                      /\ ~LeEps(FAbs(At(solver.d, k)))
                      /\ At(solver.d, k) = PivotAt(LastK, solver, k)

\* P = 0 and no constraints, so that K(rho) = 0
ZeroUnconstrained(problem) ==
    /\ \A i \in 1..Len(problem.quadratic.data) : problem.quadratic.data[i] = Zero
    /\ ~IsSome(problem.equalities)
    /\ ~IsSome(problem.inequalities)
    /\ ~IsSome(problem.bounds)

\* the solve neither returns a solution nor completes a pass: it is still
\* before its first factorization or has failed on the pivot of column 0
AbortsOnZeroPivot ==
    /\ run.pc # "done"
    /\ HasLocals => Loc.iter = 0 /\ Loc.stats.history = <<>>
    /\ run.pc = "failed" =>
          /\ Len(result) = 1
          /\ Get(result).error = [kind |-> "pivot", col |-> 0, mag |-> Zero]

\* C8 as stated: factor fails at the first column with |D_j| <= 1e-12, naming
\* the column and the magnitude, and solve_qp on a problem with P = 0 and no
\* constraints aborts with that error.
C8_Original ==
    /\ FactorStopsAtFirstSmallPivot
    /\ (run.pc # "idle" /\ IsOk(QpValidate(Call.problem))
           /\ ZeroUnconstrained(Call.problem)) => AbortsOnZeroPivot

\* C8: factor fails at the first column with |D_j| <= 1e-12, naming the column
\* and the magnitude, and never succeeds with such a pivot; solve_qp on a problem
\* with at least one variable, P = 0 and no constraints, run with
\* max_iterations >= 1, aborts with that error on column 0.
C8_Amended ==
    /\ FactorStopsAtFirstSmallPivot
    /\ (run.pc # "idle" /\ IsOk(QpValidate(Call.problem))
           /\ ZeroUnconstrained(Call.problem)
           /\ QpNvars(Call.problem) >= 1
           /\ Call.options.max_iterations >= 1) => AbortsOnZeroPivot

\* solve_qp on P = 0 without constraints has failed on the pivot of column 0
C8_Witness ==
    /\ Failed
    /\ HasLocals
    /\ ZeroUnconstrained(Call.problem)
    /\ QpNvars(Call.problem) >= 1
    /\ Get(result).error = [kind |-> "pivot", col |-> 0, mag |-> Zero]
    /\ Loc.lin.solver.last_factor = 0

\* factor has failed on a column after the first
LaterPivotFails ==
    Failed /\ HasLocals /\ Get(result).error.kind = "pivot" /\ Get(result).error.col >= 1

-----------------------------------------------------------------------------
(* Properties of LinearSystem::factor inside the loop *)

\* a step that runs one pass of the loop
Pass == run.pc = "loop" /\ (run'.loc # run.loc \/ run'.pc = "failed")

\* rho differs from the recorded rho by more than 1e-12 * (1 + |rho|), or no
\* rho is recorded
NeedsFactor(lin, rho) ==
    \/ ~IsSome(lin.current_rho)
    \/ ~LeEps(FDiv(FAbs(FSub(rho, Get(lin.current_rho))), FAdd(One, FAbs(rho))))

\* the factors the solver holds are those of P + rho * G
FactorsOf(lin, rho) ==
    /\ lin.buffer = [i \in 1..(lin.n * lin.n) |-> FAdd(lin.base[i], FMul(rho, lin.ata[i]))]
    /\ UnitLower(lin.solver)
    /\ \A i, j \in 0..(lin.n - 1) :
          LDLt(lin.solver, i, j) = Entry([dimension |-> lin.n, data |-> lin.buffer], i, j)

\* C11: the factor(rho) call of a pass factors K = P + rho * G anew exactly when
\* no rho is recorded or |rho - rho_prev| > 1e-12 * (1 + |rho|), and otherwise
\* leaves K, the factors and the recorded rho as they were; after a call that
\* succeeds the factors held are those of P + rho_rec * G for the recorded
\* rho_rec, and a call that fails leaves the recorded rho as it was.
C11_FactorCaching ==
    [][Pass =>
          LET before == Get(run.loc).lin
              after == Get(run'.loc).lin
              rho == Get(run.loc).rho
              failed == run'.pc = "failed"
              anew == failed \/ after.solver.last_factor = before.solver.last_factor + 1
          IN  /\ anew <=> NeedsFactor(before, rho)
              /\ ~NeedsFactor(before, rho) => after = before
              /\ ~failed =>
                    /\ IsSome(after.current_rho)
                    /\ NeedsFactor(before, rho) => Get(after.current_rho) = rho
                    /\ FactorsOf(after, Get(after.current_rho))
              /\ failed => after.current_rho = before.current_rho]_vars

\* a solve in which one pass reused the factors and a later pass factored anew
C11_Witness ==
    /\ HasLocals
    /\ Len(Loc.stats.history) >= 3
    /\ Loc.lin.solver.last_factor = 2
    /\ Loc.stats.history[2].rho = Loc.stats.history[1].rho
    /\ Loc.stats.history[3].rho # Loc.stats.history[2].rho

\* a factorization failed in a pass after one that had succeeded
C11_FailedKeepsRho ==
    Failed /\ HasLocals /\ IsSome(Loc.lin.current_rho) /\ Loc.rho # Get(Loc.lin.current_rho)

-----------------------------------------------------------------------------
(* Properties of the Solution solve_qp / solve_lp return *)

Emitted == {"Optimal", "MaxIterations", "MaxTime"}

History == Loc.stats.history
Last == History[Len(History)]
Sol == Get(result).solution

\* C14: the status of a returned Solution is Optimal, MaxIterations or MaxTime,
\* never PrimalInfeasible, DualInfeasible or NumericalFailure; a failed
\* factorization ends the call with an error result and no Solution.
C14_StatusEmitted ==
    /\ HasLocals => Loc.status \in Emitted
    /\ run.pc = "done" => Returned /\ Sol.status \in Emitted
    /\ run.pc = "failed" => Failed /\ Get(result).error.kind # "none"

\* a factorization failed after a pass had completed: an error, not a status
C14_Witness ==
    /\ Failed
    /\ HasLocals
    /\ Get(result).error.kind = "pivot"
    /\ Len(History) >= 1
    /\ Loc.status = "MaxIterations"

\* the timer reading of a record is over the limit the options set
OverTime(record) ==
    IsSome(Call.options.max_time) /\ record.elapsed > Get(Call.options.max_time)

\* C15: convergence is tested first, then the time limit, then the iteration
\* count. A solve ends Optimal exactly when its last record meets the
\* tolerance, also when that record is over the time limit; it ends MaxTime
\* exactly when its last record does not meet the tolerance and is over the
\* limit, so MaxTime comes with a nonempty history; it ends MaxIterations only
\* after max_iterations passes none of which met the tolerance or was over the
\* limit. No pass follows a record that met the tolerance or was over the limit.
C15_StoppingOrder ==
    HasLocals =>
        /\ \A k \in 1..(Len(History) - 1) :
              ~Meets(History[k], Call.options.tolerance) /\ ~OverTime(History[k])
        /\ Returned =>
              /\ Sol.status = "Optimal" <=>
                    (Len(History) >= 1 /\ Meets(Last, Call.options.tolerance))
              /\ Sol.status = "MaxTime" <=>
                    (Len(History) >= 1 /\ ~Meets(Last, Call.options.tolerance)
                        /\ OverTime(Last))
              /\ Sol.status = "MaxIterations" =>
                    /\ Len(History) = Call.options.max_iterations
                    /\ Len(History) >= 1 =>
                          ~Meets(Last, Call.options.tolerance) /\ ~OverTime(Last)

\* a pass on a problem with variables met the tolerance over the time limit
C15_Witness ==
    /\ Returned
    /\ Sol.status = "Optimal"
    /\ Loc.ws.n >= 1
    /\ OverTime(Last)
    /\ Meets(Last, Call.options.tolerance)

\* C16: a solve makes at most max_iterations passes, and running out of passes
\* or of time is not an error: the call returns Ok with status MaxIterations
\* or MaxTime, the last x (unscaled), the last y and the last objective; an
\* error comes only from validation or from a pass within the limit.
C16_BudgetNotAnError ==
    /\ HasLocals =>
          /\ Len(History) <= Call.options.max_iterations
          /\ Loc.iter <= Call.options.max_iterations
          /\ Failed => Len(History) < Call.options.max_iterations
    /\ (Returned /\ Sol.status \in {"MaxIterations", "MaxTime"}) =>
          /\ Sol.primal = UnscalePrimal(ruiz, Loc.x)
          /\ Sol.inequality_dual = Loc.y
          /\ Sol.objective_value = Loc.last_objective
          /\ Sol.objective_value = ComputeObjective(Loc.problem, Loc.ws.p_base, Loc.x)

\* all max_iterations passes ran and the solve returned its last iterate
C16_Witness ==
    /\ Returned
    /\ Sol.status = "MaxIterations"
    /\ Len(History) = MaxIter
    /\ Loc.ws.m >= 1
    /\ \E i \in 1..Len(Loc.x) : Loc.x[i] # Zero /\ Sol.primal[i] # Loc.x[i]

\* C17: in a returned Solution iterations = the length of stats.history =
\* stats.linear_solves, record k of the history has iteration k - 1, with a
\* nonempty history objective_value is the primal objective of the last
\* record, and the statistics are those the loop collected.
C17_IterationAccounting ==
    Returned =>
        /\ Sol.iterations = Len(Sol.stats.history)
        /\ Sol.iterations = Sol.stats.linear_solves
        /\ \A k \in 1..Len(Sol.stats.history) : Sol.stats.history[k].iteration = k - 1
        /\ Len(Sol.stats.history) >= 1 =>
              Sol.objective_value = Sol.stats.history[Len(Sol.stats.history)].primal_objective
        /\ Sol.stats.history = History
        /\ Sol.stats.factorizations = Loc.stats.factorizations
        /\ Sol.stats.linear_solves = Loc.stats.linear_solves

\* a Solution after several passes on a scaler that scales
C17_Witness ==
    /\ Returned
    /\ Sol.iterations >= 2
    /\ Sol.stats.history[2].iteration = 1
    /\ \E i \in 1..Len(ruiz.column_scaling) : ruiz.column_scaling[i] # One

\* the bounds of the stacked rows, from the blocks of the scaled problem:
\* equality rows, then inequality rows, then box rows
StackedLower(problem) ==
    (IF IsSome(problem.equalities) THEN Get(problem.equalities).rhs ELSE <<>>)
    \o (IF IsSome(problem.inequalities)
        THEN [i \in 1..Get(problem.inequalities).matrix.nrows |-> NegInf] ELSE <<>>)
    \o (IF IsSome(problem.bounds) THEN Get(problem.bounds).lower ELSE <<>>)

StackedUpper(problem) ==
    (IF IsSome(problem.equalities) THEN Get(problem.equalities).rhs ELSE <<>>)
    \o (IF IsSome(problem.inequalities) THEN Get(problem.inequalities).rhs ELSE <<>>)
    \o (IF IsSome(problem.bounds) THEN Get(problem.bounds).upper ELSE <<>>)

\* the rows of the box block: one per variable when bounds are given
BoxRows(problem) == IF IsSome(problem.bounds) THEN QpNvars(problem) ELSE 0

\* C18 as stated: equality_dual is empty and inequality_dual has one multiplier
\* per inequality row and per box row, also with equality constraints.
C18_Original ==
    Returned =>
        /\ Sol.equality_dual = <<>>
        /\ Len(Sol.inequality_dual)
              = BlockRows(Loc.problem.inequalities) + BoxRows(Loc.problem)

\* C18: equality_dual is empty and inequality_dual is the whole multiplier
\* vector y, one entry per row of the stack: equality rows first, then
\* inequality rows, then box rows. A positive multiplier sits on a row whose z
\* is at that row's upper bound, a negative one on a row at its lower bound.
C18_Amended ==
    Returned =>
        /\ Sol.equality_dual = <<>>
        /\ Sol.inequality_dual = Loc.y
        /\ Len(Sol.inequality_dual)
              = BlockRows(Loc.problem.equalities) + BlockRows(Loc.problem.inequalities)
                  + BoxRows(Loc.problem)
        /\ \A i \in 1..Len(Loc.y) :
              /\ FGt(Loc.y[i], Zero) => Loc.z[i] = StackedUpper(Loc.problem)[i]
              /\ FLt(Loc.y[i], Zero) => Loc.z[i] = StackedLower(Loc.problem)[i]

\* a Solution of a problem with an equality row and a nonzero multiplier on it
C18_Witness ==
    /\ Returned
    /\ IsSome(Loc.problem.equalities)
    /\ Len(Sol.inequality_dual) = 1
    /\ Sol.equality_dual = <<>>
    /\ Sol.inequality_dual[1] # Zero

-----------------------------------------------------------------------------
(* Properties of the scaling vector across calls *)

\* the scaling a scaler with k sweeps and a stored vector of ones of the
\* problem's length holds after scaling the problem: the factors of one call
CallFactors(op, problem, k) ==
    IF op = "scale_qp"
    THEN ScaleQp([column_scaling |-> Repeat(One, QpNvars(problem)), iterations |-> k],
                 problem).scaler.column_scaling
    ELSE ScaleLp([column_scaling |-> Repeat(One, LpNvars(problem)), iterations |-> k],
                 problem).scaler.column_scaling

\* the scaling after a call on `problem` that found the vector `stored`
Accumulated(stored, op, problem, k) ==
    LET factors == CallFactors(op, problem, k)
    IN  IF Len(stored) = Len(factors) THEN Hadamard(stored, factors) ELSE factors

\* C19: a scale_qp / scale_lp call on a problem with as many variables as the
\* stored vector has entries multiplies the stored s by the factors of this
\* call; a call on a problem with another number of variables leaves the
\* factors of this call alone, as from a vector of ones; nothing else changes s.
C19_ScalingPersists ==
    [][/\ ruiz'.iterations = ruiz.iterations
       /\ (sCall' # sCall /\ sCall'.op \in {"scale_qp", "scale_lp"}) =>
             ruiz'.column_scaling
                = Accumulated(ruiz.column_scaling, sCall'.op, sCall'.problem, ruiz.iterations)
       /\ ~(sCall'.op \in {"scale_qp", "scale_lp"}) => ruiz' = ruiz]_vars

\* a second call on as many variables found s = (1/2) and left s = (1/4)
C19_Witness ==
    /\ sCall.op = "scale_qp"
    /\ ruiz.iterations = 1
    /\ ruiz.column_scaling = <<<<1, 4>>>>
    /\ CallFactors("scale_qp", sCall.problem, 1) = <<Half>>

\* a call on two variables after one on a single variable started from ones
C19_ResetWitness ==
    /\ sCall.op = "scale_qp"
    /\ ruiz.iterations = 1
    /\ ruiz.column_scaling = <<Half, Half>>

-----------------------------------------------------------------------------
(* Properties of project_box *)

\* C12: project_box is idempotent and leaves a point within its bounds as it is;
\* a component whose bounds are ordered ends within them; and an infinite bound
\* does not move a finite value on its side.
C12_ProjectBox ==
    pb.op = "project_box" =>
        /\ Len(pb.out) = Len(pb.x)
        /\ ProjectBox(pb.out, pb.lower, pb.upper) = pb.out
        /\ pb.calls = 2 => pb.out = pb.x
        /\ \A i \in 1..Len(pb.x) :
              /\ (FLe(pb.lower[i], pb.x[i]) /\ FLe(pb.x[i], pb.upper[i])) =>
                    pb.out[i] = pb.x[i]
              /\ FLe(pb.lower[i], pb.upper[i]) =>
                    FLe(pb.lower[i], pb.out[i]) /\ FLe(pb.out[i], pb.upper[i])
              /\ (IsFinite(pb.x[i]) /\ pb.upper[i] = PosInf) => ~FLt(pb.out[i], pb.x[i])
              /\ (IsFinite(pb.x[i]) /\ pb.lower[i] = NegInf) => ~FLt(pb.x[i], pb.out[i])
              /\ (IsFinite(pb.x[i]) /\ pb.upper[i] = PosInf /\ pb.lower[i] = NegInf) =>
                    pb.out[i] = pb.x[i]

\* a finite value above its upper bound, the lower bound infinite, projected twice
C12_Witness ==
    /\ pb.op = "project_box"
    /\ pb.calls = 2
    /\ Len(pb.x) >= 1
    /\ pb.lower[1] = NegInf
    /\ pb.upper[1] = One
    /\ pb.first[1] = Int2R(2)
    /\ pb.x[1] = One
    /\ pb.out[1] = One

-----------------------------------------------------------------------------
(* Properties of the api Solver *)

\* a step that calls solve_qp or solve_lp on the Solver
ApiSolves == apiCall' # apiCall /\ apiCall'.op \in {"solve_qp", "solve_lp"}

\* C13: with method Ipm, solve_qp and solve_lp return Unsupported(Ipm) for every
\* problem, valid or not, and leave the Solver, its scaler included, as it was;
\* no Solution is returned.
C13_IpmUnsupported ==
    [][(ApiSolves /\ api.method = "Ipm") =>
          /\ apiCall'.result = [kind |-> "Err",
                                error |-> [kind |-> "Unsupported", method |-> "Ipm"]]
          /\ api' = api]_vars

\* an Ipm solve of a problem validation would reject, on a scaler an earlier
\* solve left scaled
C13_Witness ==
    /\ apiCall.op = "solve_qp"
    /\ api.method = "Ipm"
    /\ Inverted(apiCall.problem)
    /\ apiCall.result.kind = "Err"
    /\ apiCall.result.error.kind = "Unsupported"
    /\ Len(api.scaler.column_scaling) >= 1
    /\ api.scaler.column_scaling[1] # One

-----------------------------------------------------------------------------
(* Properties of the solve of a box QP *)

\* a square matrix that stores its diagonal alone, every entry positive
PositiveDiagonal(m) ==
    /\ m.nrows = m.ncols
    /\ Len(m.data) = m.ncols
    /\ m.indptr = Diagonal_csc(m.ncols, Zero).indptr
    /\ m.indices = Diagonal_csc(m.ncols, Zero).indices
    /\ \A k \in 1..m.ncols : FGt(m.data[k], Zero)

\* a QP with a positive diagonal P, bounds and no other constraint
BoxQp(problem) ==
    /\ QpNvars(problem) > 0
    /\ PositiveDiagonal(problem.quadratic)
    /\ problem.equalities = None
    /\ problem.inequalities = None
    /\ IsSome(problem.bounds)

\* lower_i - margin <= x_i <= upper_i + margin for every component
WithinBounds(x, bounds, margin) ==
    \A i \in 1..Len(x) :
        /\ FLe(FSub(bounds.lower[i], margin), x[i])
        /\ FLe(x[i], FAdd(bounds.upper[i], margin))

\* C20: a solve_qp of a box QP with a positive diagonal P by a Solver as
\* constructed (default options, a scaler that has scaled nothing, no warm
\* start) that returns Optimal returns a primal whose every component lies
\* within the bounds of the problem as the caller gave it, up to the
\* tolerance of the default options.
C20_BoxQpWithinBounds ==
    [][(/\ ApiSolves
        /\ apiCall'.op = "solve_qp"
        /\ api = SolverNew
        /\ BoxQp(apiCall'.problem)
        /\ IsOk(apiCall'.result)
        /\ apiCall'.result.solution.status = "Optimal")
          => WithinBounds(apiCall'.result.solution.primal, Get(apiCall'.problem.bounds),
                          SolverNew.options.tolerance)]_vars

\* a solve of a box QP returned Optimal after one pass with a component of
\* the primal farther outside the bounds than the tolerance
C20_OutsideBounds ==
    /\ apiCall.op = "solve_qp"
    /\ BoxQp(apiCall.problem)
    /\ IsOk(apiCall.result)
    /\ apiCall.result.solution.status = "Optimal"
    /\ apiCall.result.solution.iterations = 1
    /\ ~WithinBounds(apiCall.result.solution.primal, Get(apiCall.problem.bounds),
                     SolverNew.options.tolerance)

\* the same on the scaler a Solver owns: an Admm solve of a problem that passes
\* validation scales on api.scaler, every other call leaves the scaler alone
ApiScalingPersists ==
    [][LET op == IF apiCall'.op = "solve_qp" THEN "scale_qp" ELSE "scale_lp"
           acc == Accumulated(api.scaler.column_scaling, op, apiCall'.problem,
                              api.scaler.iterations)
       IN  /\ (ApiSolves /\ api.method = "Admm"
                /\ IsOk(IF apiCall'.op = "solve_qp" THEN QpValidate(apiCall'.problem)
                         ELSE LpValidate(apiCall'.problem)))
                  => api'.scaler.column_scaling = acc
           /\ api'.scaler # api.scaler
                  => /\ apiCall'.op \in {"solve_qp", "solve_lp"}
                     /\ api.method = "Admm"
                     /\ api'.scaler.iterations = api.scaler.iterations
                     /\ api'.scaler.column_scaling = acc]_vars

\* the Solver's scaler after two solves of the same problem: s = 1/32 * 1/32
ApiScalingAccumulated ==
    /\ apiCall.op = "solve_qp"
    /\ api.scaler.column_scaling = <<<<1, 1024>>>>

-----------------------------------------------------------------------------
(* Properties of the solve of a problem without constraint rows *)

\* a problem with no equalities, no inequalities and no bounds
NoRows(problem) ==
    problem.equalities = None /\ problem.inequalities = None /\ problem.bounds = None

\* a symmetric matrix whose diagonal is positive and exceeds the sum of the
\* magnitudes of the other entries of its row: such a matrix is positive definite
DominantSpd(matrix) ==
    LET n == matrix.ncols
        d == CscToDense(matrix)
    IN  /\ matrix.nrows = n
        /\ \A i, j \in 0..(n - 1) : At(d, i * n + j) = At(d, j * n + i)
        /\ \A i \in 0..(n - 1) :
              FGt(At(d, i * n + i),
                  SumTo([j \in 0..(n - 1) |->
                            IF j = i THEN Zero ELSE FAbs(At(d, i * n + j))], n))

\* a solve of a valid problem without rows and with such a P has ended
EndedNoRows ==
    /\ run.pc \in {"done", "failed"}
    /\ NoRows(Call.problem)
    /\ IsOk(QpValidate(Call.problem))
    /\ DominantSpd(Call.problem.quadratic)

\* the solve returned Optimal after one pass whose record has residual norms
\* and gap 0, and the returned primal solves P x = -q for the caller's P and q
OptimalAtFirstPass ==
    /\ Returned
    /\ Loc.ws.m = 0
    /\ Sol.status = "Optimal"
    /\ Sol.iterations = 1
    /\ Last.primal_residual = Zero /\ Last.dual_residual = Zero /\ Last.relative_gap = Zero
    /\ CscTimes(Call.problem.quadratic, Sol.primal)
          = [i \in 1..QpNvars(Call.problem) |-> FNeg(Call.problem.linear[i])]

-----------------------------------------------------------------------------
(* Properties of the Timer *)

\* what elapsed() returns when called in the present state
Reading == TimerElapsed(timer, clock)

\* C22: along every step of a timer under stop / resume / elapsed calls and a
\* monotonic clock, the value elapsed() returns is nonnegative and never
\* decreases; it grows by exactly the time that passes while the timer runs
\* and does not change while the timer is stopped, nor at the resume that
\* ends the stop, so the time between a stop and the next resume is not
\* counted; a stop on a stopped timer and a resume on a running timer leave
\* the timer as it is; an elapsed call returns that value and changes nothing.
C22_TimerElapsed ==
    [][/\ Reading >= 0 /\ Reading' >= Reading
       /\ timer.running => Reading' - Reading = clock' - clock
       /\ ~timer.running => Reading' = Reading
       /\ (tCall' # tCall /\ tCall'.op = "stop" /\ ~tCall'.was) => timer' = timer
       /\ (tCall' # tCall /\ tCall'.op = "resume" /\ tCall'.was) => timer' = timer
       /\ (tCall' # tCall /\ tCall'.op = "stop") => ~timer'.running
       /\ (tCall' # tCall /\ tCall'.op = "resume") => timer'.running
       /\ (tCall' # tCall /\ tCall'.op = "elapsed") =>
             timer' = timer /\ tCall'.out = Reading]_vars

\* an elapsed call on a timer that was stopped and resumed returned less than
\* the time since the start: the time it was stopped is left out
C22_Witness ==
    /\ tCall.op = "elapsed"
    /\ timer.running
    /\ timer.elapsed > 0
    /\ timer.start > timer.elapsed
    /\ tCall.out > timer.elapsed
    /\ tCall.out < clock

\* a stop call found the timer stopped
C22_StopOnStopped == tCall.op = "stop" /\ ~tCall.was /\ ~timer.running /\ timer.elapsed > 0

-----------------------------------------------------------------------------
(* Properties of the workspace *)

\* the value a CSC matrix stores at row r of column c (0-based), 0 when it
\* stores none there
StoredAt(matrix, r, c) ==
    LET ks == {k \in At(matrix.indptr, c)..(At(matrix.indptr, c + 1) - 1) :
                  At(matrix.indices, k) = r}
    IN  IF ks = {} THEN Zero ELSE At(matrix.data, CHOOSE k \in ks : \A j \in ks : j <= k)

\* C23: the workspace of a solve has m = m_eq + m_ineq + n_bounded rows, with
\* n_bounded = n when the problem has bounds and 0 otherwise: the rows of the
\* equality matrix first, with l = u = rhs, then the rows of the inequality
\* matrix, with l = -infinity and u = rhs, then one identity row per variable
\* with the bounds of the scaled problem; G is A^T A of that matrix, and it is the
\* G the linear system holds in every pass.
C23_WorkspaceLayout ==
    HasLocals =>
        LET p == Loc.problem
            ws == Loc.ws
            n == QpNvars(p)
            meq == IF IsSome(p.equalities) THEN Get(p.equalities).matrix.nrows ELSE 0
            mineq == IF IsSome(p.inequalities) THEN Get(p.inequalities).matrix.nrows ELSE 0
            nb == IF IsSome(p.bounds) THEN n ELSE 0
            A(r, c) == At(ws.a_dense, r * n + c)
        IN  /\ ws.n = n
            /\ ws.m = meq + mineq + nb
            /\ Len(ws.a_dense) = ws.m * n /\ Len(ws.lower) = ws.m /\ Len(ws.upper) = ws.m
            /\ \A r \in 0..(meq - 1) :
                  /\ \A c \in 0..(n - 1) : A(r, c) = StoredAt(Get(p.equalities).matrix, r, c)
                  /\ At(ws.lower, r) = At(Get(p.equalities).rhs, r)
                  /\ At(ws.upper, r) = At(Get(p.equalities).rhs, r)
            /\ \A r \in 0..(mineq - 1) :
                  /\ \A c \in 0..(n - 1) :
                        A(meq + r, c) = StoredAt(Get(p.inequalities).matrix, r, c)
                  /\ At(ws.lower, meq + r) = NegInf
                  /\ At(ws.upper, meq + r) = At(Get(p.inequalities).rhs, r)
            /\ \A i \in 0..(nb - 1) :
                  /\ \A c \in 0..(n - 1) :
                        A(meq + mineq + i, c) = IF c = i THEN One ELSE Zero
                  /\ At(ws.lower, meq + mineq + i) = At(Get(p.bounds).lower, i)
                  /\ At(ws.upper, meq + mineq + i) = At(Get(p.bounds).upper, i)
            /\ \A i, j \in 0..(n - 1) :
                  At(ws.ata, i * n + j)
                     = SumTo([r \in 0..(ws.m - 1) |-> FMul(A(r, i), A(r, j))], ws.m)
            /\ Loc.lin.ata = ws.ata

\* a workspace on two variables with an equality row, an inequality row and
\* two box rows, after a pass of the loop
C23_Witness ==
    /\ HasLocals
    /\ Loc.ws.n = 2 /\ Loc.ws.m = 4
    /\ IsSome(Loc.problem.equalities) /\ IsSome(Loc.problem.inequalities)
    /\ At(Loc.ws.lower, 1) = NegInf
    /\ At(Loc.ws.ata, 1) # Zero
    /\ Len(History) >= 1

-----------------------------------------------------------------------------
(* Properties of the adaptive penalty *)

\* the rho the pass after the one recorded in rec runs with, under the options
NextRho(rec, options) ==
    IF ~options.admm_adaptive_rho THEN rec.rho
    ELSE IF FLt(FMul(Int2R(10), rec.dual_residual), rec.primal_residual)
    THEN FAdd(rec.rho, rec.rho)
    ELSE IF FLt(FMul(Int2R(10), rec.primal_residual), rec.dual_residual)
    THEN FMul(rec.rho, Half)
    ELSE rec.rho

\* C24: the first record carries options.admm_rho; the record after a pass
\* that did not stop the loop carries twice the rho of that pass when its
\* primal residual norm exceeded 10 times its dual residual norm, half of it
\* when the dual exceeded 10 times the primal, and the same rho otherwise or
\* when adaptive rho is off; that rho is the one the next pass factors with,
\* and every rho is positive.
C24_AdaptiveRho ==
    HasLocals =>
        /\ FGt(Loc.rho, Zero)
        /\ Len(History) >= 1 => History[1].rho = Call.options.admm_rho
        /\ \A k \in 1..Len(History) : FGt(History[k].rho, Zero)
        /\ \A k \in 1..(Len(History) - 1) :
              History[k + 1].rho = NextRho(History[k], Call.options)
        /\ (run.pc = "loop" /\ Len(History) >= 1) =>
              Loc.rho = NextRho(Last, Call.options)
        /\ (run.pc # "failed" /\ Len(History) >= 1) =>
              Loc.lin.current_rho = Some(Last.rho)
        /\ ~Call.options.admm_adaptive_rho =>
              \A k \in 1..Len(History) : History[k].rho = Call.options.admm_rho

\* a solve with adaptive rho whose second pass ran with twice the rho of the
\* first and whose third pass ran with another rho again
C24_Witness ==
    /\ HasLocals
    /\ Call.options.admm_adaptive_rho
    /\ Len(History) >= 3
    /\ History[2].rho = FMul(Int2R(2), History[1].rho)
    /\ History[3].rho # History[2].rho

\* a solve whose second pass ran with half the rho of the first and whose
\* third pass ran with the rho of the second
C24_Halved ==
    /\ HasLocals
    /\ Len(History) >= 3
    /\ History[2].rho = FMul(Half, History[1].rho)
    /\ History[3].rho = History[2].rho


\* the locals are those solve_qp enters its loop with
AtEntry == HasLocals /\ run.pc = "loop" /\ Loc.iter = 0 /\ Len(History) = 0

\* the warm start is set and its primal has one entry per variable
WarmFits == IsSome(Call.warm_start) /\ Len(Get(Call.warm_start).primal) = Loc.ws.n

\* C25: solve_qp enters its loop with x the warm-start primal when a warm start
\* is set and its primal has n entries and the zero vector otherwise (a primal
\* of another length is ignored, the call is not rejected for it), z the
\* projection of A x onto [l, u] of the scaled problem, y zero whatever dual
\* vectors the warm start carries, and rho = options.admm_rho.
C25_InitialState ==
    /\ AtEntry =>
          LET ax == StackedTimes(Loc.problem, Loc.x)
              l == StackedLower(Loc.problem)
              u == StackedUpper(Loc.problem)
          IN  /\ Len(Loc.x) = Loc.ws.n
              /\ WarmFits => Loc.x = Get(Call.warm_start).primal
              /\ ~WarmFits => \A j \in 1..Loc.ws.n : Loc.x[j] = Zero
              /\ Len(Loc.z) = Len(ax)
              /\ \A i \in 1..Len(ax) :
                    Loc.z[i] = IF FLt(ax[i], l[i]) THEN l[i]
                               ELSE IF FGt(ax[i], u[i]) THEN u[i] ELSE ax[i]
              /\ Len(Loc.y) = Len(ax)
              /\ \A i \in 1..Len(ax) : Loc.y[i] = Zero
              /\ Loc.rho = Call.options.admm_rho
    /\ (run.pc = "failed" /\ ~HasLocals) => ~IsOk(QpValidate(Call.problem))

\* entered with a warm start that fits, carries dual vectors, and moves z off
\* the projection of zero
C25_Witness ==
    /\ AtEntry /\ WarmFits
    /\ Get(Call.warm_start).inequality_dual # <<>>
    /\ Len(Loc.y) >= 1
    /\ \E i \in 1..Len(Loc.z) : Loc.z[i] # Zero

\* entered with a warm start of another length: x is zero
C25_Mismatched ==
    /\ AtEntry /\ IsSome(Call.warm_start) /\ ~WarmFits
    /\ Loc.ws.n >= 1


-----------------------------------------------------------------------------
(* Properties of the sweeps of scale_qp and of the scaling it applies *)

\* m_j of a matrix: the largest absolute stored entry of column j (from 0)
ColumnMaxOf(matrix, j) ==
    ColumnMax(matrix.data, At(matrix.indptr, j), At(matrix.indptr, j + 1), Zero)

\* s_j after one matrix of a sweep
SweptBy(v, m) == IF FGt(m, Zero) THEN FDiv(v, FSqrt(m)) ELSE v

\* s_j after k sweeps over P, the inequality matrix and the equality matrix
RECURSIVE SweptEntry(_, _, _, _)
SweptEntry(problem, v, j, k) ==
    IF k = 0 THEN v
    ELSE LET mp == ColumnMaxOf(problem.quadratic, j)
             mg == IF IsSome(problem.inequalities)
                   THEN ColumnMaxOf(Get(problem.inequalities).matrix, j) ELSE Zero
             ma == IF IsSome(problem.equalities)
                   THEN ColumnMaxOf(Get(problem.equalities).matrix, j) ELSE Zero
         IN  SweptEntry(problem, SweptBy(SweptBy(SweptBy(v, mp), mg), ma), j, k - 1)

\* a step that is a call of scale_qp
ScaleQpStep == (ruiz' # ruiz \/ sCall' # sCall) /\ sCall'.op = "scale_qp"

\* the scaler is left with the s of the configured number of sweeps
SweptAsStated ==
    LET n == QpNvars(sCall'.problem)
        s0 == IF Len(ruiz.column_scaling) = n THEN ruiz.column_scaling ELSE Repeat(One, n)
    IN  /\ Len(ruiz'.column_scaling) = n
        /\ \A j \in 1..n :
              ruiz'.column_scaling[j] = SweptEntry(sCall'.problem, s0[j], j - 1, ruiz.iterations)

\* the columns of a matrix, from 0, and the places of a column's stored entries
ColumnsOf(matrix) == 0..(matrix.ncols - 1)
EntriesOf(matrix, j) == (At(matrix.indptr, j) + 1)..At(matrix.indptr, j + 1)

\* every stored entry (i, j) of after is that of before times 1 / (s_i s_j)
TwoSided(before, after, s) ==
    /\ after.indptr = before.indptr /\ after.indices = before.indices
    /\ \A j \in ColumnsOf(before) : \A e \in EntriesOf(before, j) :
          after.data[e] = FDiv(FDiv(before.data[e], At(s, before.indices[e])), At(s, j))

\* every stored entry (i, j) of after is that of before times 1 / s_j
RightDiagonal(before, after, s) ==
    /\ after.indptr = before.indptr /\ after.indices = before.indices
    /\ \A j \in ColumnsOf(before) : \A e \in EntriesOf(before, j) :
          after.data[e] = FDiv(before.data[e], At(s, j))

BlockRightDiagonal(before, after, s) ==
    IF IsSome(before)
    THEN IsSome(after) /\ RightDiagonal(Get(before).matrix, Get(after).matrix, s)
    ELSE after = None

\* the quadratic term is scaled on both sides
QuadraticTwoSided ==
    sCall.op = "scale_qp" =>
        TwoSided(sCall.problem.quadratic, sCall.scaled.quadratic, ruiz.column_scaling)

\* the constraint matrices are scaled on the right only
ConstraintsRightDiagonal ==
    sCall.op = "scale_qp" =>
        /\ BlockRightDiagonal(sCall.problem.inequalities, sCall.scaled.inequalities,
                              ruiz.column_scaling)
        /\ BlockRightDiagonal(sCall.problem.equalities, sCall.scaled.equalities,
                              ruiz.column_scaling)

\* the sweeps alone, which scale_qp runs as stated
C26_Sweeps == [][ScaleQpStep => SweptAsStated]_vars

\* C26: scale_qp computes s by the configured number of sweeps, each dividing
\* s_j by sqrt(m_j) for each of P, the inequality matrix and the equality matrix
\* whose column j has m_j > 0, and then multiplies every equality/inequality
\* entry (i, j) by 1 / s_j only and every P_ij by 1 / (s_i s_j).
C26_SweepsAndRightDiagonal ==
    [][ScaleQpStep =>
          /\ SweptAsStated
          /\ QuadraticTwoSided'
          /\ ConstraintsRightDiagonal']_vars


-----------------------------------------------------------------------------
(* Properties of solve_lp *)

\* the QP with the LP's cost, its blocks, and an n x n zero diagonal stored
\* entry by entry
ZeroDiagonalQp(lp) ==
    LET n == Len(lp.cost)
    IN  [quadratic |-> [nrows |-> n, ncols |-> n,
                        indptr |-> [i \in 1..(n + 1) |-> i - 1],
                        indices |-> [i \in 1..n |-> i - 1],
                        data |-> [i \in 1..n |-> Zero]],
         linear |-> lp.cost, inequalities |-> lp.inequalities,
         equalities |-> lp.equalities, bounds |-> lp.bounds]

\* a step that is a call of solve_lp
SolveLpStep == run.pc = "idle" /\ run'.pc # "idle" /\ Get(run'.call).op = "solve_lp"

\* what the step would be as a call of solve_qp on qp with the same options,
\* warm start and scaler
AsSolveQpOn(qp) ==
    LET c == Get(run'.call)
        v == QpValidate(qp)
    IN  /\ c.problem = qp
        /\ IF IsOk(v)
           THEN LET st == SolveQpStart(c.options, c.warm_start, qp, ruiz)
                IN  /\ run'.pc = "loop" /\ run'.loc = <<st.locals>>
                    /\ result' = <<>> /\ ruiz' = st.scaler
           ELSE /\ run'.pc = "failed" /\ run'.loc = <<>>
                /\ result' = <<[kind |-> "Err", error |-> v]>> /\ ruiz' = ruiz

\* C27: solve_lp(lp) is solve_qp on the QP with the LP's cost as linear term,
\* the same equalities, inequalities and bounds and an explicit n x n zero
\* diagonal, with the same options, warm start and scaler; an invalid LP is
\* rejected by the validation of that QP.
C27_SolveLpIsSolveQp ==
    [][SolveLpStep => AsSolveQpOn(ZeroDiagonalQp(Get(run'.call).given))]_vars

\* solve_lp returned a solution after at least one pass
C27_Witness ==
    /\ Returned /\ Call.op = "solve_lp"
    /\ Len(History) >= 1
    /\ Call.problem.quadratic.data = Repeat(Zero, Loc.ws.n)

\* solve_lp rejected an LP by the validation of the QP
C27_Rejected ==
    /\ Failed /\ ~HasLocals /\ Call.op = "solve_lp"
    /\ Get(result).error = QpValidate(ZeroDiagonalQp(Call.given))


-----------------------------------------------------------------------------
(* Properties of z and y after a pass *)

\* a step that is a completed pass of the loop
PassStep ==
    /\ run.pc = "loop" /\ run'.pc # "failed"
    /\ Len(Get(run'.loc).stats.history) = Len(History) + 1

\* the stacked row i after the pass: z within its bounds, y signed by the bound
\* z sits on, and y zero where A x + y / rho was within the bounds
RowComplementary(i) ==
    LET after == Get(run'.loc)
        l == StackedLower(Loc.problem)[i]
        u == StackedUpper(Loc.problem)[i]
        v == FAdd(StackedTimes(Loc.problem, after.x)[i], FDiv(Loc.y[i], Loc.rho))
    IN  /\ FLe(l, after.z[i]) /\ FLe(after.z[i], u)
        /\ FGt(after.y[i], Zero) => after.z[i] = u
        /\ FLt(after.y[i], Zero) => after.z[i] = l
        /\ (FLe(l, v) /\ FLe(v, u)) => (after.y[i] = Zero /\ after.z[i] = v)

\* C28: after every pass, with rho > 0 and l <= u, on every stacked row i the
\* z_i is within [l_i, u_i], y_i > 0 only if z_i = u_i, y_i < 0 only if
\* z_i = l_i, and y_i = 0 where the projection did not clamp A x + y / rho.
C28_Complementary ==
    [][(PassStep /\ FGt(Loc.rho, Zero)
            /\ \A i \in 1..Loc.ws.m :
                  FLe(StackedLower(Loc.problem)[i], StackedUpper(Loc.problem)[i])) =>
          /\ Len(Get(run'.loc).z) = Loc.ws.m /\ Len(Get(run'.loc).y) = Loc.ws.m
          /\ \A i \in 1..Loc.ws.m : RowComplementary(i)]_vars

\* after a second pass a row has a positive multiplier and z on its upper
\* bound, and a row has a zero multiplier and z strictly inside its bounds
C28_Witness ==
    /\ HasLocals /\ Len(History) >= 2
    /\ \E i \in 1..Loc.ws.m : FGt(Loc.y[i], Zero) /\ Loc.z[i] = StackedUpper(Loc.problem)[i]
    /\ \E i \in 1..Loc.ws.m :
          /\ Loc.y[i] = Zero
          /\ FLt(StackedLower(Loc.problem)[i], Loc.z[i])
          /\ FLt(Loc.z[i], StackedUpper(Loc.problem)[i])

\* a row with a negative multiplier and z on its lower bound
C28_AtLower ==
    /\ HasLocals /\ Len(History) >= 1
    /\ \E i \in 1..Loc.ws.m : FLt(Loc.y[i], Zero) /\ Loc.z[i] = StackedLower(Loc.problem)[i]


-----------------------------------------------------------------------------
(* Properties of the GUI's solve task *)

\* C29: at most one solve worker is in flight at any time, and the shared task
\* state is Running for as long as a worker is in flight: start_solve does
\* nothing while the state is Running, and no other action of the user moves
\* the state away from Running before the worker stores its result.
C29_OneWorkerWhileRunning ==
    /\ Cardinality(workers) <= 1
    /\ workers # {} => task.kind = "Running"

\* start_solve spawns only from a state that is not Running, and sets Running
StartSolveGuarded ==
    [][workers' # workers /\ Cardinality(workers') > Cardinality(workers) =>
          ~IsBusy(task) /\ IsBusy(task')]_vars

\* two workers are in flight at once
TwoWorkersInFlight == Cardinality(workers) = 2

\* C30: every solve started from the GUI eventually leaves the Running state,
\* for every input file that parses as a problem: the worker stores Success or
\* Failure when the solve ends.
C30_LeavesRunning == (task.kind = "Running") ~> (task.kind # "Running")

\* a solve that does not panic leaves Running
ReturningSolveLeavesRunning ==
    (task.kind = "Running" /\ workers # {}
        /\ \A w \in workers : WorkerOutcome(w, TRUE) # "Panic")
    ~> (task.kind # "Running")

\* the state is Running with no worker left to store a result
RunningWithoutWorker == task.kind = "Running" /\ workers = {}

====
